---- MODULE Spec2Model ----
(***************************************************************************)
(* Queueing System Simulator (qss): the event loop of QSS.run, the         *)
(* QueueManager and the NodeManager, as state machines.                    *)
(*                                                                         *)
(* Conventions.                                                            *)
(*  - Timestamps are integers (the code uses floats; only order, sums and  *)
(*    the value 0 matter here).                                            *)
(*  - Python's None is the value None (-1): it is below every timestamp,   *)
(*    as None is below every number in Python 2 comparisons.               *)
(*  - Python sequences are 0-based; node ids keep their 0-based values,    *)
(*    positions in lists (queue, allocations, streams) are 1-based here.   *)
(***************************************************************************)
EXTENDS Integers, Sequences, FiniteSets, TLC

VARIABLES
    \* ---- NodeManager (src/qss/core/node.py)
    nodes,                    \* __nodes: node id -> "Idle" | "Busy"
    jobs_allocation,          \* __jobs_allocation: sequence of [job, node_ids]
    nm_num_jobs_per_source,   \* __num_jobs_per_source (0 = key absent)
    \* ---- QueueManager (src/qss/core/queue.py)
    queue,                    \* __queue
    latest_queued_timestamp,  \* __latest_queued_timestamp
    queued_buffer_job,        \* __queued_buffer_job
    q_num_jobs_per_source,    \* __num_jobs_per_source (0 = key absent)
    limits,                   \* __limits: key -> limit, None = key absent
    discipline,               \* __discipline
    job_init,                 \* __job_init: "dummy" | "titan"
    with_buffer,              \* whether __buffer is a dict (else None)
    buffer,                   \* __buffer: source -> sequence of jobs
    num_dropped,              \* __num_dropped: key -> count (None with buffer)
    \* ---- QSS (src/qss/__init__.py)
    current_state,            \* __current_state
    current_time,             \* __current_time
    time_limit,               \* __time_limit
    job_generators,           \* __job_generators: per stream, what it yielded
    input_jobs,               \* __input_jobs: the stream fronts
    arrival_gid,              \* __arrival_gid (1-based)
    arrival_timestamp,        \* __arrival_timestamp
    output,                   \* __output
    trace,                    \* __trace
    pc,                       \* position of the caller in QSS.run
    \* ---- ScheduleManager (src/qss/core/schedule.py)
    schedules,                \* __schedules: the __timetable of each
                              \* NodeSchedule, a sequence of records
    num_idle_nodes_now,       \* __num_idle_nodes_now
    sm_current_time,          \* ScheduleManager.__current_time
    scheduled_start,          \* the scheduled-start list of the planner:
                              \* records (start, job_id, node_ids)
    \* ---- QSS, the flags of the planner (src/qss/__init__.py)
    schedule_recreation,      \* __schedule_recreation
    new_priority_arrival,     \* __new_priority_arrival
    \* ---- bookkeeping of the checks
    call,                     \* the last direct call: whether it raised, the
                              \* job it took or returned, its status code
    started,                  \* jobs dispatched by the current submission step
    planned,                  \* what the last planner call found and returned
    first_run,                \* what the previous run of this QSS left: the
                              \* jobs its streams yielded, its trace and its
                              \* output
    \* ---- stream_generator_by_file (src/qss/stream.py)
    file_stream,              \* the generator: the rows of its file, its
                              \* locals and the jobs it has yielded
    \* ---- QUEUE_POLICY (src/qss/policy.py) and the managers built from it
    queue_policy              \* the dict QUEUE_POLICY['limit'] and the
                              \* QueueManagers that were given the policy

nmVars == <<nodes, jobs_allocation, nm_num_jobs_per_source>>
qmVars == <<queue, latest_queued_timestamp, queued_buffer_job,
            q_num_jobs_per_source, limits, discipline, job_init, with_buffer,
            buffer, num_dropped>>
qssVars == <<current_state, current_time, time_limit, job_generators,
             input_jobs, arrival_gid, arrival_timestamp, output, trace, pc>>
smVars == <<schedules, num_idle_nodes_now, sm_current_time>>
plVars == <<scheduled_start, schedule_recreation, new_priority_arrival>>
vars == <<nmVars, qmVars, qssVars, smVars, plVars, call, started, planned, first_run, file_stream, queue_policy>>

----------------------------------------------------------------------------
(* Bounds of the model *)

NumNodes == 2         \* nodes of the NodeManager
MaxJobs == 3          \* jobs the streams of a run yield, all together
MaxAllocations == 2   \* allocations held at once under direct calls
MaxHeld == 3          \* jobs a QueueManager holds at once under direct calls
MaxDropped == 2       \* jobs a QueueManager drops under direct calls
MaxRecords == 3       \* records of a timetable under direct calls

\* Arrival timestamps of the jobs, and the "now" of a direct call.
Times == 0 .. 2

\* The timestamps of the planner's timetables, and the wall times of the
\* jobs it plans.
PlanTimes == 0 .. 4
WallTimes == {1, 2}

----------------------------------------------------------------------------
(* Python values *)

None == -1

\* Python truthiness of a number-or-None: "not x" is true for None and 0.
Falsy(x) == x = None \/ x = 0

Sources == {"A", "B"}
ExecutionTimes == {1, 2}
NodeIds == 0 .. (NumNodes - 1)

Range(s) == {s[k] : k \in 1 .. Len(s)}

RECURSIVE SumSeq(_)
SumSeq(s) == IF s = <<>> THEN 0 ELSE Head(s) + SumSeq(Tail(s))

----------------------------------------------------------------------------
(* Job (src/qss/core/job.py) *)

\* wall_time is the execution time unless the job is given another.
Job(id, source, arrival, execution, nnodes, priority) ==
    [id |-> id, source |-> source, arrival_timestamp |-> arrival,
     execution_time |-> execution, wall_time |-> execution,
     num_nodes |-> nnodes, priority |-> priority, group |-> None,
     submission_timestamp |-> None]

\* The place of a job where there is none (None where a Job is expected).
NoJob ==
    [id |-> None, source |-> "", arrival_timestamp |-> None,
     execution_time |-> None, wall_time |-> None, num_nodes |-> None,
     priority |-> None, group |-> None, submission_timestamp |-> None]

IsJob(j) == j.id # None

\* Job.release_timestamp: None unless submission_timestamp is truthy.
release_timestamp(job) ==
    IF Falsy(job.submission_timestamp)
    THEN None
    ELSE job.submission_timestamp + job.execution_time

----------------------------------------------------------------------------
(* NodeManager (src/qss/core/node.py) *)

num_idle_nodes(ns) == Cardinality({i \in DOMAIN ns : ns[i] = "Idle"})
num_busy_nodes(ns) == Cardinality({i \in DOMAIN ns : ns[i] = "Busy"})

next_release_timestamp(allocs) ==
    IF allocs # <<>> THEN release_timestamp(allocs[1].job) ELSE None

\* Mutant of ready_for_processing: asks for one idle node more than needed.
ready_with_spare_node(ns, job) == ~(num_idle_nodes(ns) <= job.num_nodes)

ready_for_processing(ns, job) == ~(num_idle_nodes(ns) < job.num_nodes)

\* list.sort(key=release_timestamp): a stable sort, None below every number.
InsertByRelease(sorted, a) ==
    LET key(x) == release_timestamp(x.job)
        after == {k \in 1 .. Len(sorted) : key(sorted[k]) <= key(a)}
        pos == IF after = {} THEN 0
               ELSE CHOOSE k \in after : \A m \in after : m <= k
    IN  SubSeq(sorted, 1, pos) \o <<a>> \o SubSeq(sorted, pos + 1, Len(sorted))

RECURSIVE SortByRelease(_)
SortByRelease(allocs) ==
    IF allocs = <<>> THEN <<>>
    ELSE InsertByRelease(SortByRelease(SubSeq(allocs, 1, Len(allocs) - 1)),
                         allocs[Len(allocs)])

\* The num highest-index Idle nodes, from the top down.
HighestIdle(ns, from, num) ==
    LET idle == {i \in DOMAIN ns : i >= from /\ ns[i] = "Idle"}
        taken == {i \in idle : Cardinality({j \in idle : j > i}) < num}
    IN  [k \in 1 .. Cardinality(taken) |->
            CHOOSE i \in taken : Cardinality({j \in taken : j > i}) = k - 1]

\* The ids start_processing takes: the num lowest-index Idle nodes.
RECURSIVE LowestIdle(_, _, _)
LowestIdle(ns, from, num) ==
    IF num = 0 \/ from \notin DOMAIN ns THEN <<>>
    ELSE IF ns[from] = "Idle"
         THEN <<from>> \o LowestIdle(ns, from + 1, num - 1)
         ELSE LowestIdle(ns, from + 1, num)

IncreaseCount(counts, source) ==
    [counts EXCEPT ![source] = @ + 1]

DecreaseCount(counts, source) ==
    IF counts[source] # 0 THEN [counts EXCEPT ![source] = @ - 1] ELSE counts

\* Allocate without the sort of the list.
AllocateUnsorted(allocs, job, node_ids, now) ==
    Append(allocs,
        [job |-> [job EXCEPT !.submission_timestamp = now],
         node_ids |-> node_ids])

\* The record of an allocation made at current_time.
Allocate(allocs, job, node_ids, now) ==
    SortByRelease(Append(allocs,
        [job |-> [job EXCEPT !.submission_timestamp = now],
         node_ids |-> node_ids]))

start_raises(ns, job) == num_idle_nodes(ns) < job.num_nodes

\* start_processing when it does not raise.
start_processing(job, now) ==
    LET node_ids == LowestIdle(nodes, 0, job.num_nodes)
    IN  /\ nodes' = [i \in DOMAIN nodes |->
                        IF i \in Range(node_ids) THEN "Busy" ELSE nodes[i]]
        /\ jobs_allocation' = Allocate(jobs_allocation, job, node_ids, now)
        /\ nm_num_jobs_per_source' =
                IncreaseCount(nm_num_jobs_per_source, job.source)

\* stop_processing: pops allocations while the head's release equals now.
RECURSIVE StopLoop(_, _, _, _, _)
StopLoop(ns, allocs, counts, out, now) ==
    IF now = next_release_timestamp(allocs)
    THEN StopLoop([i \in DOMAIN ns |->
                      IF i \in Range(allocs[1].node_ids) THEN "Idle" ELSE ns[i]],
                  Tail(allocs),
                  DecreaseCount(counts, allocs[1].job.source),
                  Append(out, allocs[1].job),
                  now)
    ELSE [nodes |-> ns, allocs |-> allocs, counts |-> counts, out |-> out]

stop_processing(now) ==
    StopLoop(nodes, jobs_allocation, nm_num_jobs_per_source, <<>>, now)

\* assign_processing, the loop over node_ids: marks Busy until the first
\* id that is already Busy; failed is that id, or None.
RECURSIVE AssignLoop(_, _, _)
AssignLoop(ns, node_ids, k) ==
    IF k > Len(node_ids) THEN [nodes |-> ns, failed |-> None]
    ELSE IF ns[node_ids[k]] = "Busy"
         THEN [nodes |-> ns, failed |-> node_ids[k]]
         ELSE AssignLoop([ns EXCEPT ![node_ids[k]] = "Busy"], node_ids, k + 1)

\* list.index: the first position of x, as a count of the elements before it.
IndexOf(s, x) == (CHOOSE k \in 1 .. Len(s) : s[k] = x /\ \A m \in 1 .. (k - 1) : s[m] # x) - 1

\* "if failed_node_id:" is the truthiness of the id, not "is not None".
FailedIsTruthy(failed) == ~Falsy(failed)

\* The whole call: [raised, nodes, allocs, counts, job].
assign_processing(ns, allocs, counts, job, node_ids, now) ==
    IF Len(node_ids) # job.num_nodes
    THEN [raised |-> TRUE, nodes |-> ns, allocs |-> allocs, counts |-> counts,
          job |-> job]
    ELSE LET r == AssignLoop(ns, node_ids, 1) IN
         IF FailedIsTruthy(r.failed)
         THEN [raised |-> TRUE,
               nodes |-> [i \in DOMAIN ns |->
                            IF i \in Range(SubSeq(node_ids, 1,
                                                  IndexOf(node_ids, r.failed)))
                            THEN "Idle" ELSE r.nodes[i]],
               allocs |-> allocs, counts |-> counts, job |-> job]
         ELSE [raised |-> FALSE, nodes |-> r.nodes,
               allocs |-> Allocate(allocs, job, node_ids, now),
               counts |-> IncreaseCount(counts, job.source),
               job |-> [job EXCEPT !.submission_timestamp = now]]

----------------------------------------------------------------------------
(* QueueManager (src/qss/core/queue.py) *)

LimitKeys == {"_total", "_per_source"} \cup Sources

\* priority_queue_job_init (src/qss/policy.py): group and aging boost by the
\* band of TITAN_REQUESTED_PROCESSOR_COUNT that holds num_nodes.
TitanNumNodes == 18688
TitanBand1Min == 11250
TitanBand2Min == 3750
TitanBand3Min == 313
TitanBand4Min == 126
TitanBoost1 == 1296000
TitanBoost2 == 432000

priority_queue_job_init(job) ==
    LET n == job.num_nodes IN
    IF n >= TitanBand1Min /\ n <= TitanNumNodes
        THEN [job EXCEPT !.group = 1, !.priority = TitanBoost1]
    ELSE IF n >= TitanBand2Min /\ n < TitanBand1Min
        THEN [job EXCEPT !.group = 2, !.priority = TitanBoost2]
    ELSE IF n >= TitanBand3Min /\ n < TitanBand2Min
        THEN [job EXCEPT !.group = 3, !.priority = 0]
    ELSE IF n >= TitanBand4Min /\ n < TitanBand3Min
        THEN [job EXCEPT !.group = 4, !.priority = 0]
    ELSE IF n >= 1 /\ n < TitanBand4Min
        THEN [job EXCEPT !.group = 5, !.priority = 0]
    ELSE job

ApplyJobInit(kind, job) ==
    IF kind = "titan" THEN priority_queue_job_init(job) ELSE job

fifo_queue_append(q, element) == Append(q, element)

\* Mutant of priority_queue_append: the new element goes before the elements
\* of its own priority.
priority_queue_append_before_equal(q, element) ==
    LET gt == {k \in 1 .. Len(q) : q[k].priority > element.priority}
        pos == IF gt = {} THEN 0 ELSE CHOOSE k \in gt : \A m \in gt : m <= k
    IN  SubSeq(q, 1, pos) \o <<element>> \o SubSeq(q, pos + 1, Len(q))

\* Scans from the tail for the last element with priority >= the new one's
\* and inserts behind it, or at the front when there is none.
priority_queue_append(q, element) ==
    LET ge == {k \in 1 .. Len(q) : q[k].priority >= element.priority}
        pos == IF ge = {} THEN 0 ELSE CHOOSE k \in ge : \A m \in ge : m <= k
    IN  SubSeq(q, 1, pos) \o <<element>> \o SubSeq(q, pos + 1, Len(q))

queue_append(disc, q, element) ==
    IF disc = "priority" THEN priority_queue_append(q, element)
    ELSE fifo_queue_append(q, element)

\* The state of a QueueManager, as a record, so that add and the pops, which
\* call each other, are functions of it.
QState ==
    [queue |-> queue, latest |-> latest_queued_timestamp,
     queued_buffer_job |-> queued_buffer_job,
     num_jobs |-> q_num_jobs_per_source, limits |-> limits,
     discipline |-> discipline, job_init |-> job_init,
     with_buffer |-> with_buffer, buffer |-> buffer,
     num_dropped |-> num_dropped]

SetQState(q) ==
    /\ queue' = q.queue
    /\ latest_queued_timestamp' = q.latest
    /\ queued_buffer_job' = q.queued_buffer_job
    /\ q_num_jobs_per_source' = q.num_jobs
    /\ limits' = q.limits
    /\ discipline' = q.discipline
    /\ job_init' = q.job_init
    /\ with_buffer' = q.with_buffer
    /\ buffer' = q.buffer
    /\ num_dropped' = q.num_dropped


\* QueueManager.__init__(policy, limit, with_buffer=use_buffer); policy is
\* [limit, discipline, job_init]. "if limit:" skips a limit of 0.
QueueManagerInit(policy, limit, use_buffer) ==
    [queue |-> <<>>, latest |-> 0, queued_buffer_job |-> NoJob,
     num_jobs |-> [s \in Sources |-> 0],
     limits |-> IF Falsy(limit) THEN policy.limit
                ELSE [policy.limit EXCEPT !["_total"] = limit],
     discipline |-> policy.discipline, job_init |-> policy.job_init,
     with_buffer |-> use_buffer,
     buffer |-> [s \in Sources |-> <<>>],
     num_dropped |-> [k \in Sources \cup {"_total"} |-> 0]]

\* QueueManager.reset
QueueManagerReset(q) ==
    [q EXCEPT !.queue = <<>>, !.latest = 0,
              !.queued_buffer_job = NoJob,
              !.num_jobs = [s \in Sources |-> 0],
              !.buffer = [s \in Sources |-> <<>>],
              !.num_dropped = [k \in Sources \cup {"_total"} |-> 0]]

\* Mutant of has_free_spots: the per-source test lets one job too many in.
has_free_spots_one_more(q, job) ==
    LET key == IF q.limits[job.source] # None THEN job.source
               ELSE IF q.limits["_per_source"] # None THEN "_per_source"
               ELSE "none"
    IN  /\ ~(q.limits["_total"] # None
             /\ q.limits["_total"] - Len(q.queue) < 1)
        /\ ~(key # "none" /\ q.limits[key] - q.num_jobs[job.source] < 0)

\* Mutant of has_free_spots: only the source's own entry limits a source.
has_free_spots_own_entry_only(q, job) ==
    /\ ~(q.limits["_total"] # None /\ q.limits["_total"] - Len(q.queue) < 1)
    /\ ~(q.limits[job.source] # None
          /\ q.limits[job.source] - q.num_jobs[job.source] < 1)

\* The part of add that decides: has_free_spots at the end of the tests.
has_free_spots(q, job) ==
    LET total_ok == ~(q.limits["_total"] # None
                      /\ q.limits["_total"] - Len(q.queue) < 1)
        key == IF q.limits[job.source] # None THEN job.source
               ELSE IF q.limits["_per_source"] # None THEN "_per_source"
               ELSE "none"
    IN  /\ total_ok
        /\ ~(key # "none" /\ q.limits[key] - q.num_jobs[job.source] < 1)

\* Mutant of process_approved_job: the new job is inserted first and aged
\* with the others.
process_approved_job_ages_new(q, job, now) ==
    LET delta == now - q.latest
        added == queue_append(q.discipline, q.queue,
                              ApplyJobInit(q.job_init, job))
    IN  [q EXCEPT !.queue = IF q.discipline = "priority"
                            THEN [k \in 1 .. Len(added) |->
                                    [added[k] EXCEPT !.priority = @ + delta]]
                            ELSE added,
                  !.num_jobs = IncreaseCount(q.num_jobs, job.source),
                  !.latest = now]

process_approved_job(q, job, now) ==
    LET delta == now - q.latest
        aged == IF q.discipline = "priority"
                THEN [k \in 1 .. Len(q.queue) |->
                        [q.queue[k] EXCEPT !.priority = @ + delta]]
                ELSE q.queue
    IN  [q EXCEPT !.queue = queue_append(q.discipline, aged,
                                         ApplyJobInit(q.job_init, job)),
                  !.num_jobs = IncreaseCount(q.num_jobs, job.source),
                  !.latest = now]

\* Mutant of process_rejected_job: the job is neither kept nor counted.
process_rejected_job_forgotten(q, job) == q

\* Mutant of process_rejected_job: the drop is counted for the source only.
process_rejected_job_source_only(q, job) ==
    IF q.with_buffer
    THEN [q EXCEPT !.buffer[job.source] = Append(@, job)]
    ELSE [q EXCEPT !.num_dropped[job.source] = @ + 1]

process_rejected_job(q, job) ==
    IF q.with_buffer
    THEN [q EXCEPT !.buffer[job.source] = Append(@, job)]
    ELSE [q EXCEPT !.num_dropped[job.source] = @ + 1,
                   !.num_dropped["_total"] = @ + 1]

\* add: the state after the call; its status code is AddStatus.
QueueAdd(q, job, now) ==
    IF has_free_spots(q, job) THEN process_approved_job(q, job, now)
    ELSE process_rejected_job(q, job)

\* Mutant of AddStatus: a job that went to the buffer counts as a success.
AddStatusOfDropOnly(q, job) ==
    IF has_free_spots(q, job) \/ q.with_buffer THEN 0 ELSE 1

AddStatus(q, job) == IF has_free_spots(q, job) THEN 0 ELSE 1

\* Mutant of post_pop_job_per_source: the newest buffered job re-enters.
post_pop_newest_of_buffer(q, source, now) ==
    LET q1 == [q EXCEPT !.num_jobs = DecreaseCount(q.num_jobs, source)] IN
    IF q1.with_buffer /\ Len(q1.buffer[source]) > 0
    THEN LET buffered == q1.buffer[source]
             job_from_buffer == buffered[Len(buffered)]
             q2 == [q1 EXCEPT !.buffer[source] =
                                  SubSeq(buffered, 1, Len(buffered) - 1)]
         IN  [QueueAdd(q2, job_from_buffer, now)
                EXCEPT !.queued_buffer_job = job_from_buffer]
    ELSE q1

\* __post_pop_job_per_source: at most one buffered job of the source
\* re-enters add.
post_pop_job_per_source(q, source, now) ==
    LET q1 == [q EXCEPT !.num_jobs = DecreaseCount(q.num_jobs, source)] IN
    IF q1.with_buffer /\ Len(q1.buffer[source]) > 0
    THEN LET job_from_buffer == Head(q1.buffer[source])
             q2 == [q1 EXCEPT !.buffer[source] = Tail(@)]
         IN  [QueueAdd(q2, job_from_buffer, now)
                EXCEPT !.queued_buffer_job = job_from_buffer]
    ELSE q1

\* get_next: pops the head; the job returned is q.queue[1].
get_next(q, now) ==
    post_pop_job_per_source([q EXCEPT !.queue = Tail(@)],
                            q.queue[1].source, now)

\* A sequence without its element at position pos.
RemoveAt(s, pos) == SubSeq(s, 1, pos - 1) \o SubSeq(s, pos + 1, Len(s))

\* pull(eid, current_time, job_id=job_id): [raised, q, job]. eid counts from
\* 0; a job_id that is given and does not stand at eid is searched for.
pull(q, eid, job_id, now) ==
    LET max_eid == Len(q.queue) - 1
        by_id == /\ ~Falsy(job_id)
                 /\ (eid > max_eid \/ q.queue[eid + 1].id # job_id)
        found == {k \in 1 .. Len(q.queue) : q.queue[k].id = job_id}
        pos == IF by_id
               THEN IF found = {} THEN 0
                    ELSE CHOOSE k \in found : \A m \in found : k <= m
               ELSE IF eid <= max_eid THEN eid + 1 ELSE 0
    IN  IF pos = 0
        THEN [raised |-> TRUE, q |-> q, job |-> NoJob]
        ELSE [raised |-> FALSE,
              q |-> post_pop_job_per_source(
                        [q EXCEPT !.queue = RemoveAt(@, pos)],
                        q.queue[pos].source, now),
              job |-> q.queue[pos]]

----------------------------------------------------------------------------
(* NodeSchedule and ScheduleManager (src/qss/core/schedule.py) *)

\* A record of a __timetable: (start_time, end_time, job_id); job_id is
\* None in the record set_initial_busy_time writes.
Reservation(start, end, job_id) ==
    [start |-> start, end |-> end, job_id |-> job_id]

\* busy_times, from the second record on: period is the busy period being
\* grown, a record that starts where it ends is merged into it.
RECURSIVE BusyLoop(_, _, _)
BusyLoop(rest, period, acc) ==
    IF rest = <<>> THEN Append(acc, period)
    ELSE LET record == Head(rest) IN
         IF period[2] = record.start
         THEN BusyLoop(Tail(rest), <<period[1], record.end>>, acc)
         ELSE BusyLoop(Tail(rest), <<record.start, record.end>>,
                       Append(acc, period))

\* NodeSchedule.busy_times (the cache is dropped by every change of the
\* timetable, so it is always what the timetable gives).
busy_times(timetable) ==
    IF timetable = <<>> THEN <<>>
    ELSE BusyLoop(Tail(timetable),
                  <<timetable[1].start, timetable[1].end>>, <<>>)

RECURSIVE IdleLoop(_, _, _)
IdleLoop(busy, idle_start_timestamp, acc) ==
    IF busy = <<>> THEN Append(acc, <<idle_start_timestamp>>)
    ELSE LET record == Head(busy) IN
         IF idle_start_timestamp < record[1]
         THEN IdleLoop(Tail(busy), record[2],
                       Append(acc, <<idle_start_timestamp, record[1]>>))
         ELSE IF record[2] < idle_start_timestamp
         THEN IdleLoop(Tail(busy), idle_start_timestamp, acc)
         ELSE IdleLoop(Tail(busy), record[2], acc)

\* NodeSchedule.get_idle_times: the idle periods from current_time on, the
\* last one open (a 1-tuple).
get_idle_times(timetable, now) == IdleLoop(busy_times(timetable), now, <<>>)

RECURSIVE StartLoop(_, _, _)
StartLoop(idle, wall_time, acc) ==
    IF idle = <<>> THEN acc
    ELSE LET record == Head(idle) IN
         IF Len(record) = 2 /\ (record[2] - record[1]) < wall_time
         THEN StartLoop(Tail(idle), wall_time, acc)
         ELSE StartLoop(Tail(idle), wall_time,
                        IF Len(record) = 2
                        THEN acc \o <<<<record[1], 1>>,
                                      <<record[2] - wall_time, -1>>>>
                        ELSE Append(acc, <<record[1], 1>>))

\* get_start_timestamps taking every idle period as long enough for the job.
get_start_timestamps_any_gap(timetable, wall_time, now) ==
    StartLoop(get_idle_times(timetable, now), 0, <<>>)

\* get_start_timestamps without the open period after the last reservation,
\* where an earlier period can hold the job.
get_start_timestamps_closed_periods(timetable, wall_time, now) ==
    LET starts == StartLoop(get_idle_times(timetable, now), wall_time, <<>>)
    IN  IF Len(starts) > 1 THEN SubSeq(starts, 1, Len(starts) - 1)
        ELSE starts

\* NodeSchedule.get_start_timestamps: (timestamp, +1) where a period that
\* can hold the job begins, (timestamp, -1) at the last start it allows.
get_start_timestamps(timetable, wall_time, now) ==
    StartLoop(get_idle_times(timetable, now), wall_time, <<>>)

\* The loop of NodeSchedule.insert from record k on: the position to insert
\* at (counted from 0), or None where it raises.
RECURSIVE InsertLoop(_, _, _, _, _)
InsertLoop(timetable, k, previous_end_timestamp, start, end) ==
    IF k > Len(timetable) THEN k - 1
    ELSE IF previous_end_timestamp <= start /\ end <= timetable[k].start
         THEN k - 1
    ELSE IF previous_end_timestamp > start THEN None
    ELSE InsertLoop(timetable, k + 1, timetable[k].end, start, end)

\* NodeSchedule.insert: [raised, timetable].
insert(timetable, start, end, job_id) ==
    LET position_id == InsertLoop(timetable, 1, 0, start, end) IN
    IF position_id = None
    THEN [raised |-> TRUE, timetable |-> timetable]
    ELSE [raised |-> FALSE,
          timetable |-> SubSeq(timetable, 1, position_id)
                            \o <<Reservation(start, end, job_id)>>
                            \o SubSeq(timetable, position_id + 1,
                                      Len(timetable))]

\* An event of the planner's merge: (timestamp, sched_id, value).
Event(timestamp, sched_id, value) ==
    [timestamp |-> timestamp, sched_id |-> sched_id, value |-> value]

\* The order of the event tuples: by timestamp, then by schedule id.
EventBefore(timestamp, sched_id, record) ==
    \/ timestamp < record.timestamp
    \/ (timestamp = record.timestamp /\ sched_id < record.sched_id)

\* An event put before the first event of the list it stands before.
InsertEvent(next_timestamps, e) ==
    LET before == {k \in 1 .. Len(next_timestamps) :
                     EventBefore(e.timestamp, e.sched_id, next_timestamps[k])}
        position_id == IF before = {} THEN Len(next_timestamps)
                       ELSE (CHOOSE k \in before : \A m \in before : k <= m)
                                - 1
    IN  SubSeq(next_timestamps, 1, position_id) \o <<e>>
            \o SubSeq(next_timestamps, position_id + 1, Len(next_timestamps))

\* The first event of every schedule, sorted.
RECURSIVE FirstEvents(_, _, _)
FirstEvents(cumulative, sched_id, acc) ==
    IF sched_id \notin DOMAIN cumulative THEN acc
    ELSE FirstEvents(cumulative, sched_id + 1,
                     InsertEvent(acc, Event(cumulative[sched_id][1][1],
                                            sched_id,
                                            cumulative[sched_id][1][2])))

\* A sequence without the first occurrence of x.
RemoveFirst(seq, x) ==
    LET at == {k \in 1 .. Len(seq) : seq[k] = x}
        k == CHOOSE i \in at : \A m \in at : i <= m
    IN  SubSeq(seq, 1, k - 1) \o SubSeq(seq, k + 1, Len(seq))

\* The merge loop of __get_schedule_parameters. list.pop(0) of an empty
\* list and list.remove of an absent id raise.
RECURSIVE MergeLoop(_, _, _, _)
MergeLoop(next_timestamps, cumulative, schedule_ids, num_nodes) ==
    IF next_timestamps = <<>>
    THEN [raised |-> TRUE, start |-> None, schedule_ids |-> schedule_ids]
    ELSE LET e == Head(next_timestamps)
             rest == Tail(next_timestamps)
         IN
         IF e.value < 0 /\ e.sched_id \notin Range(schedule_ids)
         THEN [raised |-> TRUE, start |-> None, schedule_ids |-> schedule_ids]
         ELSE LET ids == IF e.value > 0 THEN Append(schedule_ids, e.sched_id)
                         ELSE RemoveFirst(schedule_ids, e.sched_id)
                  left == num_nodes - e.value
              IN
              IF left = 0
              THEN [raised |-> FALSE, start |-> e.timestamp,
                    schedule_ids |-> ids]
              ELSE IF cumulative[e.sched_id] # <<>>
              THEN LET n == Head(cumulative[e.sched_id]) IN
                   MergeLoop(InsertEvent(rest, Event(n[1], e.sched_id, n[2])),
                             [cumulative EXCEPT ![e.sched_id] = Tail(@)],
                             ids, left)
              ELSE MergeLoop(rest, cumulative, ids, left)

\* __get_schedule_parameters without the tests of the job's wall time and
\* number of nodes.
get_schedule_parameters_unchecked(scheds, now, wall_time, num_nodes) ==
    LET cumulative == [i \in DOMAIN scheds |->
                         get_start_timestamps(scheds[i], wall_time, now)]
    IN  MergeLoop(FirstEvents(cumulative, 0, <<>>),
                  [i \in DOMAIN scheds |-> Tail(cumulative[i])],
                  <<>>, num_nodes)

\* ScheduleManager.__get_schedule_parameters for a job of this wall_time and
\* num_nodes: [raised, start, schedule_ids].
get_schedule_parameters(scheds, now, wall_time, num_nodes) ==
    IF Falsy(wall_time) \/ Falsy(num_nodes)
       \/ num_nodes > Cardinality(DOMAIN scheds)
    THEN [raised |-> TRUE, start |-> None, schedule_ids |-> <<>>]
    ELSE LET cumulative == [i \in DOMAIN scheds |->
                              get_start_timestamps(scheds[i], wall_time, now)]
         IN  MergeLoop(FirstEvents(cumulative, 0, <<>>),
                       [i \in DOMAIN scheds |-> Tail(cumulative[i])],
                       <<>>, num_nodes)

\* A job as the planner reads it: id(job), job.wall_time, job.num_nodes.
PlanJob(id, wall_time, num_nodes) ==
    [id |-> id, wall_time |-> wall_time, num_nodes |-> num_nodes]

\* The inserts of get_backfill_elements into the schedules of schedule_ids,
\* in that order; an insert that raises leaves the earlier ones done.
RECURSIVE InsertAll(_, _, _, _, _)
InsertAll(scheds, schedule_ids, start, end, job_id) ==
    IF schedule_ids = <<>> THEN [raised |-> FALSE, schedules |-> scheds]
    ELSE LET r == insert(scheds[Head(schedule_ids)], start, end, job_id) IN
         IF r.raised THEN [raised |-> TRUE, schedules |-> scheds]
         ELSE InsertAll([scheds EXCEPT ![Head(schedule_ids)] = r.timetable],
                        Tail(schedule_ids), start, end, job_id)

\* What the planner has found when it has not been called.
NoPlan ==
    [raised |-> FALSE, start |-> None, schedule_ids |-> <<>>,
     backfill |-> <<>>, wall_time |-> None, num_nodes |-> None]

\* The loop of get_backfill_elements over the jobs of the queue from
\* position eid (counted from 0) on: [schedules, idle, plan], plan being
\* what was found for the last job looked at and the (eid, job_id) pairs to
\* return. "if start_timestamp:" skips a start of 0.
RECURSIVE BackfillLoop(_, _, _, _, _, _)
BackfillLoop(jobs, eid, scheds, idle, now, plan) ==
    IF eid >= Len(jobs) THEN [schedules |-> scheds, idle |-> idle, plan |-> plan]
    ELSE LET job == jobs[eid + 1]
             found == get_schedule_parameters(scheds, now, job.wall_time,
                                              job.num_nodes)
             seen == [plan EXCEPT !.raised = found.raised,
                                  !.start = found.start,
                                  !.schedule_ids = found.schedule_ids,
                                  !.wall_time = job.wall_time,
                                  !.num_nodes = job.num_nodes]
         IN
         IF found.raised
         THEN [schedules |-> scheds, idle |-> idle, plan |-> seen]
         ELSE IF Falsy(found.start)
         THEN BackfillLoop(jobs, eid + 1, scheds, idle, now, seen)
         ELSE LET done == InsertAll(scheds, found.schedule_ids, found.start,
                                    found.start + job.wall_time, job.id)
                  now_start == found.start = now
                  idle1 == IF now_start
                           THEN idle - Len(found.schedule_ids) ELSE idle
                  plan1 == IF now_start
                           THEN [seen EXCEPT !.backfill =
                                               Append(@, <<eid, job.id>>)]
                           ELSE seen
              IN
              IF done.raised
              THEN [schedules |-> done.schedules, idle |-> idle,
                    plan |-> [seen EXCEPT !.raised = TRUE]]
              ELSE IF idle1 = 0
              THEN [schedules |-> done.schedules, idle |-> idle1,
                    plan |-> plan1]
              ELSE BackfillLoop(jobs, eid + 1, done.schedules, idle1, now,
                                plan1)

\* ScheduleManager.get_backfill_elements(queue_iterator, current_time).
get_backfill_elements(jobs, time) ==
    LET now == IF time # None THEN time ELSE sm_current_time
        r == IF num_idle_nodes_now # 0
             THEN BackfillLoop(jobs, 0, schedules, num_idle_nodes_now, now,
                               NoPlan)
             ELSE [schedules |-> schedules, idle |-> num_idle_nodes_now,
                   plan |-> NoPlan]
    IN  /\ sm_current_time' = now
        /\ schedules' = r.schedules
        /\ num_idle_nodes_now' = r.idle
        /\ planned' = r.plan

\* set_initial_busy_times leaving the nodes that the map does not name as
\* they are.
InitialBusyTimesOfNamed(scheds, node_release_timestamps, time) ==
    [i \in DOMAIN scheds |->
        IF i \in DOMAIN node_release_timestamps
        THEN <<Reservation(time, node_release_timestamps[i], None)>>
        ELSE scheds[i]]

\* The timetables set_initial_busy_times leaves: the busy period that is
\* going on for the nodes of the map, nothing for the others.
InitialBusyTimes(scheds, node_release_timestamps, time) ==
    [i \in DOMAIN scheds |->
        IF i \in DOMAIN node_release_timestamps
        THEN <<Reservation(time, node_release_timestamps[i], None)>>
        ELSE <<>>]

\* ScheduleManager.set_initial_busy_times(node_release_timestamps,
\* current_time); the map is a function from node ids to timestamps.
set_initial_busy_times(node_release_timestamps, time) ==
    /\ sm_current_time' = time
    /\ schedules' = InitialBusyTimes(schedules, node_release_timestamps, time)
    /\ num_idle_nodes_now' = Cardinality(DOMAIN schedules)
                                - Cardinality(DOMAIN node_release_timestamps)

----------------------------------------------------------------------------
(* The ScheduleManager as QSS calls it. The methods add, is_backfill_job,  *)
(* has_scheduled_elements, get_scheduled_elements and                      *)
(* create_schedule_by_queue, the scheduled-start list they keep and the    *)
(* wall time of a job are not in src/qss/core: they follow section 4.5 of  *)
(* the specification, on top of __get_schedule_parameters and              *)
(* NodeSchedule.insert of src/qss/core/schedule.py.                        *)

\* The ScheduleManager as a record, so that its methods are functions of it.
SState ==
    [schedules |-> schedules, idle |-> num_idle_nodes_now,
     now |-> sm_current_time, scheduled |-> scheduled_start]

SetSState(S) ==
    /\ schedules' = S.schedules
    /\ num_idle_nodes_now' = S.idle
    /\ sm_current_time' = S.now
    /\ scheduled_start' = S.scheduled

\* An entry of the scheduled-start list.
ScheduledStart(start, job_id, node_ids) ==
    [start |-> start, job_id |-> job_id, node_ids |-> node_ids]

\* The list is kept sorted ascending on start; an entry goes behind the
\* entries that start no later.
InsertScheduledStart(list, e) ==
    LET upto == {k \in 1 .. Len(list) : list[k].start <= e.start}
        pos == IF upto = {} THEN 0
               ELSE CHOOSE k \in upto : \A m \in upto : m <= k
    IN  SubSeq(list, 1, pos) \o <<e>> \o SubSeq(list, pos + 1, Len(list))

\* add(job, current_time): [raised, S]. Runs the earliest-start selection
\* for the job, reserves [t*, t* + wall_time) on every chosen node and
\* enters (t*, job_id, node_ids) in the scheduled-start list; no-op for a
\* wall time of 0.
AddReserved(S, job, found, done) ==
    [raised |-> done.raised,
     S |-> [S EXCEPT
              !.schedules = done.schedules,
              !.scheduled =
                  IF done.raised THEN @
                  ELSE InsertScheduledStart(@,
                          ScheduledStart(found.start, job.id,
                                         found.schedule_ids))]]

AddFound(S, job, found) ==
    IF found.raised THEN [raised |-> TRUE, S |-> S]
    ELSE AddReserved(S, job, found,
                     InsertAll(S.schedules, found.schedule_ids, found.start,
                               found.start + job.wall_time, job.id))

schedule_add(S, job, time) ==
    IF job.wall_time = 0 THEN [raised |-> FALSE, S |-> [S EXCEPT !.now = time]]
    ELSE AddFound([S EXCEPT !.now = time], job,
                  get_schedule_parameters(S.schedules, time, job.wall_time,
                                          job.num_nodes))

\* is_backfill_job(job_id): an entry that starts at the current time names
\* the job.
is_backfill_job(S, job_id) ==
    \E k \in 1 .. Len(S.scheduled) :
        S.scheduled[k].start = S.now /\ S.scheduled[k].job_id = job_id

\* has_scheduled_elements(current_time): the head of the list starts now.
has_scheduled_elements(S, time) ==
    S.scheduled # <<>> /\ S.scheduled[1].start = time

\* The heads of the list that start at time, from position k on.
RECURSIVE DueHeads(_, _, _)
DueHeads(list, k, time) ==
    IF k > Len(list) \/ list[k].start # time THEN k - 1
    ELSE DueHeads(list, k + 1, time)

\* get_scheduled_elements(current_time): pops every head that starts now;
\* [elements, S], the elements being the entries popped.
get_scheduled_elements(S, time) ==
    LET n == DueHeads(S.scheduled, 1, time) IN
    [elements |-> SubSeq(S.scheduled, 1, n),
     S |-> [S EXCEPT !.now = time,
                     !.scheduled = SubSeq(@, n + 1, Len(@))]]

\* create_schedule_by_queue(queue_iterator): add for every queued job, in
\* the order of the queue; [raised, S].
RECURSIVE create_schedule_by_queue(_, _)
CreateNext(r, jobs) ==
    IF r.raised THEN r ELSE create_schedule_by_queue(r.S, Tail(jobs))

create_schedule_by_queue(S, jobs) ==
    IF jobs = <<>> THEN [raised |-> FALSE, S |-> S]
    ELSE CreateNext(schedule_add(S, Head(jobs), S.now), jobs)

\* set_initial_busy_times as the planner of a run needs it: the timetables
\* are seeded from the map and the scheduled-start list is cleared.
set_initial_busy(S, node_release_timestamps, time) ==
    [S EXCEPT !.now = time,
              !.schedules = InitialBusyTimes(@, node_release_timestamps, time),
              !.idle = Cardinality(DOMAIN S.schedules)
                          - Cardinality(DOMAIN node_release_timestamps),
              !.scheduled = <<>>]

\* Job.scheduled_release_timestamp: submission_timestamp + wall_time.
scheduled_release_timestamp(job) ==
    job.submission_timestamp + job.wall_time

\* NodeManager.get_scheduled_release_timestamps: node id -> the scheduled
\* release of the job that holds it (the last allocation that names it).
get_scheduled_release_timestamps(allocs) ==
    LET held == UNION {Range(allocs[k].node_ids) : k \in 1 .. Len(allocs)}
        last(i) == CHOOSE k \in 1 .. Len(allocs) :
                      /\ i \in Range(allocs[k].node_ids)
                      /\ \A m \in (k + 1) .. Len(allocs) :
                            i \notin Range(allocs[m].node_ids)
    IN  [i \in held |-> scheduled_release_timestamp(allocs[last(i)].job)]

----------------------------------------------------------------------------
(* QSS (src/qss/__init__.py) *)

\* QUEUE_POLICY of src/qss/policy.py, and the {} that replaces it when the
\* import fails.
QUEUE_POLICY ==
    [limit |-> [k \in LimitKeys |-> IF k = "_per_source" THEN 4 ELSE None],
     discipline |-> "priority", job_init |-> "titan"]

EmptyPolicy ==
    [limit |-> [k \in LimitKeys |-> None],
     discipline |-> "fifo", job_init |-> "dummy"]

\* The source name of the stream at position g.
SourceOf(g) == IF g % 2 = 1 THEN "A" ELSE "B"

\* What the streams have yielded so far, all together.
NumYielded(gens) == SumSeq([g \in 1 .. Len(gens) |-> Len(gens[g])])

LastArrival(gen) ==
    IF gen = <<>> THEN 0 ELSE gen[Len(gen)].arrival_timestamp

\* The wall time of a job of a pool: its execution time unless it is given.
WallOf(t) == IF "wall_time" \in DOMAIN t THEN t.wall_time ELSE t.execution

\* generator.next(): a job of the pool that arrives no earlier than the
\* stream's previous job, or NoJob for StopIteration. A stream is finite: it
\* stops once the streams have yielded maxJobs jobs.
NextOfStream(gens, g, pool, maxJobs) ==
    {NoJob} \cup
    IF NumYielded(gens) >= maxJobs THEN {}
    ELSE {[Job(10 * g + Len(gens[g]) + 1, SourceOf(g), t.arrival,
               t.execution, t.num_nodes, t.priority)
             EXCEPT !.wall_time = WallOf(t)] :
            t \in {u \in pool : u.arrival >= LastArrival(gens[g])}}

\* Mutant of EarlierArrival: the comparison turned round.
LaterArrival(job_arrival, ts) == Falsy(ts) \/ job_arrival > ts

\* The test of the scan in __set_next_arrival_job: the front replaces the
\* candidate when there is none yet ("not ts") or it arrives earlier.
EarlierArrival(job_arrival, ts) == Falsy(ts) \/ job_arrival < ts

\* The scan of __set_next_arrival_job over the stream fronts: [gid, ts].
RECURSIVE ArrivalScan(_, _, _)
ArrivalScan(fronts, idx, acc) ==
    IF idx > Len(fronts) THEN acc
    ELSE ArrivalScan(fronts, idx + 1,
            IF IsJob(fronts[idx])
               /\ EarlierArrival(fronts[idx].arrival_timestamp, acc.ts)
            THEN [gid |-> idx, ts |-> fronts[idx].arrival_timestamp]
            ELSE acc)

\* __set_next_arrival_job(gid) with the generator yielding job (or NoJob).
set_next_arrival_job(gid, job) ==
    LET fronts == [input_jobs EXCEPT ![gid] = job]
        next == ArrivalScan(fronts, 1, [gid |-> None, ts |-> None])
    IN  /\ input_jobs' = fronts
        /\ job_generators' = IF IsJob(job)
                             THEN [job_generators EXCEPT ![gid] = Append(@, job)]
                             ELSE job_generators
        /\ arrival_gid' = next.gid
        /\ arrival_timestamp' = next.ts

\* Mutant of ArrivalIsNext: the arrival also wins a tie with the release.
ArrivalIsNextOnTie(nrt, arr_ts) == Falsy(nrt) \/ (nrt >= arr_ts /\ arr_ts > 0)

\* The test of __set_next_timestamp that selects the arrival.
ArrivalIsNext(nrt, arr_ts) == Falsy(nrt) \/ (nrt > arr_ts /\ arr_ts > 0)

\* The test of __set_next_timestamp that overrides the state to Stop.
OverTimeLimit(tl, now) == ~Falsy(tl) /\ ~Falsy(now) /\ tl < now

\* __set_next_timestamp: [time, state].
NextTimestamp(arr_ts, nrt, now, state, tl) ==
    IF Falsy(arr_ts) /\ Falsy(nrt)
    THEN [time |-> now, state |-> "Stop"]
    ELSE LET chosen ==
                 IF ArrivalIsNext(nrt, arr_ts)
                 THEN [time |-> arr_ts, state |-> "Arrival"]
                 ELSE IF ~Falsy(nrt)
                 THEN [time |-> nrt, state |-> "Completion"]
                 ELSE [time |-> now, state |-> state]
         IN  IF OverTimeLimit(tl, chosen.time)
             THEN [chosen EXCEPT !.state = "Stop"]
             ELSE chosen

\* __trace_update with the queue length where the timestamp belongs.
trace_update_swapped(q, allocs, code) ==
    trace' = Append(trace, <<Len(q), current_time, Len(allocs), code>>)

\* __trace_update
trace_update(q, allocs, code) ==
    trace' = Append(trace, <<current_time, Len(q), Len(allocs), code>>)

\* The module-level policy as imported, no QueueManager built from it yet.
NoManagers == [limit |-> QUEUE_POLICY.limit, managers |-> <<>>]

\* No file is being replayed.
NoFile ==
    [rows |-> <<>>, time_limit |-> None, pos |-> 1,
     latest_arrival_timestamp |-> 0, arrival_timestamp |-> 0,
     yielded |-> <<>>, ended |-> TRUE]

\* No run has returned yet.
NoRun == [runs |-> 0, streams |-> <<>>, trace |-> <<>>, output |-> <<>>]

\* The state QSS.__init__ leaves, for num_nodes nodes, but for the
\* scheduler.
QSSFields(num, tl, policy, queue_limit, use_buffer) ==
    /\ nodes = [i \in 0 .. (num - 1) |-> "Idle"]
    /\ jobs_allocation = <<>>
    /\ nm_num_jobs_per_source = [s \in Sources |-> 0]
    /\ LET q == QueueManagerInit(policy, queue_limit, use_buffer) IN
        /\ queue = q.queue
        /\ latest_queued_timestamp = q.latest
        /\ queued_buffer_job = q.queued_buffer_job
        /\ q_num_jobs_per_source = q.num_jobs
        /\ limits = q.limits
        /\ discipline = q.discipline
        /\ job_init = q.job_init
        /\ with_buffer = q.with_buffer
        /\ buffer = q.buffer
        /\ num_dropped = q.num_dropped
    /\ current_state = "None"
    /\ current_time = 0
    /\ time_limit = tl
    /\ job_generators = <<>>
    /\ input_jobs = <<>>
    /\ arrival_gid = None
    /\ arrival_timestamp = None
    /\ output = <<>>
    /\ trace = <<>>
    /\ pc = "init"
    /\ call = [op |-> "none", raised |-> FALSE, job |-> NoJob,
               status |-> None]
    /\ started = <<>>
    /\ planned = NoPlan
    /\ first_run = NoRun
    /\ scheduled_start = <<>>
    /\ schedule_recreation = FALSE
    /\ new_priority_arrival = FALSE

\* QSS.__init__ with use_scheduler=False: no ScheduleManager.
QSSInit(num, tl, policy, queue_limit, use_buffer) ==
    /\ QSSFields(num, tl, policy, queue_limit, use_buffer)
    /\ file_stream = NoFile
    /\ queue_policy = NoManagers
    /\ schedules = <<>>
    /\ num_idle_nodes_now = 0
    /\ sm_current_time = 0

\* QSS.run up to its loop: __reset, then the first job of each of the n
\* streams (firsts[g] is what stream g yields first). __reset leaves the
\* ScheduleManager and the flags of the planner as they are.
RunFrom(n, pool, maxJobs) ==
    /\ \E firsts \in [1 .. n -> {NoJob} \cup
                        {[Job(0, "", t.arrival, t.execution, t.num_nodes,
                              t.priority)
                            EXCEPT !.wall_time = WallOf(t)] : t \in pool}] :
        LET fronts == [g \in 1 .. n |->
                         IF IsJob(firsts[g])
                         THEN [firsts[g] EXCEPT !.id = 10 * g + 1,
                                                !.source = SourceOf(g)]
                         ELSE NoJob]
            next == ArrivalScan(fronts, 1, [gid |-> None, ts |-> None])
        IN  /\ Cardinality({g \in 1 .. n : IsJob(fronts[g])}) <= maxJobs
            /\ input_jobs' = fronts
            /\ job_generators' = [g \in 1 .. n |->
                                    IF IsJob(fronts[g]) THEN <<fronts[g]>>
                                    ELSE <<>>]
            /\ arrival_gid' = next.gid
            /\ arrival_timestamp' = next.ts
    /\ current_state' = "None"
    /\ current_time' = 0
    /\ SetQState(QueueManagerReset(QState))
    /\ nodes' = [i \in DOMAIN nodes |-> "Idle"]
    /\ jobs_allocation' = <<>>
    /\ nm_num_jobs_per_source' = [s \in Sources |-> 0]
    /\ output' = <<>>
    /\ trace' = <<>>
    /\ pc' = "next_action"
    /\ UNCHANGED <<time_limit, call, started>>
    /\ UNCHANGED <<smVars, plVars, planned>>

\* The first run of a QSS.
Run(n, pool, maxJobs) ==
    /\ pc = "init"
    /\ RunFrom(n, pool, maxJobs)
    /\ UNCHANGED <<first_run, file_stream, queue_policy>>

\* A second run of the same QSS, once the first one has returned.
RunAgain(n, pool, maxJobs) ==
    /\ pc = "done"
    /\ first_run.runs = 0
    /\ RunFrom(n, pool, maxJobs)
    /\ first_run' = [runs |-> 1, streams |-> job_generators,
                     trace |-> trace, output |-> output]
    /\ UNCHANGED <<file_stream, queue_policy>>

\* __next_action: the dispatch on the current state.
NextAction ==
    /\ pc = "next_action"
    /\ pc' = CASE current_state = "Arrival" -> "arrival"
               [] current_state = "Completion" -> "completion"
               [] current_state = "Stop" -> "done"
               [] OTHER -> "set_next_timestamp"
    /\ UNCHANGED <<nmVars, qmVars, current_state, current_time, time_limit,
                   job_generators, input_jobs, arrival_gid, arrival_timestamp,
                   output, trace, call, started>>
    /\ UNCHANGED <<smVars, plVars, planned, first_run, file_stream, queue_policy>>

\* __arrival, one turn of its loop: the front of stream arrival_gid goes to
\* queue.add and the stream yields its next job.
ArrivalAdmit(pool, maxJobs) ==
    /\ pc = "arrival"
    /\ arrival_timestamp = current_time
    /\ SetQState(QueueAdd(QState, input_jobs[arrival_gid], current_time))
    /\ \E job \in NextOfStream(job_generators, arrival_gid, pool, maxJobs) :
            set_next_arrival_job(arrival_gid, job)
    /\ UNCHANGED <<nmVars, current_state, current_time, time_limit, output,
                   trace, pc, call, started>>
    /\ UNCHANGED <<smVars, plVars, planned, first_run, file_stream, queue_policy>>

\* __arrival, the end of its loop.
ArrivalEnd ==
    /\ pc = "arrival"
    /\ arrival_timestamp # current_time
    /\ trace_update(queue, jobs_allocation, "a")
    /\ pc' = "submission"
    /\ started' = <<>>
    /\ UNCHANGED <<nmVars, qmVars, current_state, current_time, time_limit,
                   job_generators, input_jobs, arrival_gid, arrival_timestamp,
                   output, call>>
    /\ UNCHANGED <<smVars, plVars, planned, first_run, file_stream, queue_policy>>

\* __completion (no scheduler)
Completion ==
    /\ pc = "completion"
    /\ LET r == stop_processing(current_time) IN
        /\ nodes' = r.nodes
        /\ jobs_allocation' = r.allocs
        /\ nm_num_jobs_per_source' = r.counts
        /\ output' = output \o r.out
        /\ trace_update(queue, r.allocs, "c")
    /\ pc' = "submission"
    /\ started' = <<>>
    /\ UNCHANGED <<qmVars, current_state, current_time, time_limit,
                   job_generators, input_jobs, arrival_gid, arrival_timestamp,
                   call>>
    /\ UNCHANGED <<smVars, plVars, planned, first_run, file_stream, queue_policy>>

\* The job the submission loop (no scheduler) starts in its next turn: the
\* queue's head when the loop goes on and the head is ready, else NoJob.
NextToStart(q, ns) ==
    IF q # <<>> /\ num_idle_nodes(ns) # 0 /\ ready_for_processing(ns, q[1])
    THEN q[1] ELSE NoJob

\* __submission (no scheduler), one turn of its loop.
SubmissionStart ==
    /\ pc = "submission"
    /\ IsJob(NextToStart(queue, nodes))
    /\ LET job == NextToStart(queue, nodes) IN
        /\ SetQState(get_next(QState, current_time))
        /\ start_processing(job, current_time)
        /\ started' = Append(started, job.id)
    /\ UNCHANGED <<current_state, current_time, time_limit, job_generators,
                   input_jobs, arrival_gid, arrival_timestamp, output, trace,
                   pc, call>>
    /\ UNCHANGED <<smVars, plVars, planned, first_run, file_stream, queue_policy>>

\* __submission, the end of its loop.
SubmissionEnd ==
    /\ pc = "submission"
    /\ ~IsJob(NextToStart(queue, nodes))
    /\ IF started # <<>>
       THEN trace_update(queue, jobs_allocation, "s")
       ELSE trace' = trace
    /\ pc' = "set_next_timestamp"
    /\ UNCHANGED <<nmVars, qmVars, current_state, current_time, time_limit,
                   job_generators, input_jobs, arrival_gid, arrival_timestamp,
                   output, call, started>>
    /\ UNCHANGED <<smVars, plVars, planned, first_run, file_stream, queue_policy>>

SetNextTimestamp ==
    /\ pc = "set_next_timestamp"
    /\ LET r == NextTimestamp(arrival_timestamp,
                              next_release_timestamp(jobs_allocation),
                              current_time, current_state, time_limit) IN
        /\ current_time' = r.time
        /\ current_state' = r.state
    /\ pc' = "next_action"
    /\ UNCHANGED <<nmVars, qmVars, time_limit, job_generators, input_jobs,
                   arrival_gid, arrival_timestamp, output, trace, call,
                   started>>
    /\ UNCHANGED <<smVars, plVars, planned, first_run, file_stream, queue_policy>>

----------------------------------------------------------------------------
(* QSS with use_scheduler=True: the steps that call the ScheduleManager *)

\* QueueManager.get_new_added_from_buffer: [job, q]; NoJob unless a job was
\* queued at this very time.
get_new_added_from_buffer(q, now) ==
    IF q.latest = now
    THEN [job |-> q.queued_buffer_job,
          q |-> [q EXCEPT !.queued_buffer_job = NoJob]]
    ELSE [job |-> NoJob, q |-> q]

\* QSS.__scheduling(job): the job is added to the schedule; the flag
\* __new_priority_arrival is raised when the job is not the last of the
\* queue and is not to start now. [raised, S, npa]; show_last raises on an
\* empty queue.
SchedulingAdded(r, npa, q, job) ==
    IF r.raised \/ q.queue = <<>>
    THEN [raised |-> TRUE, S |-> r.S, npa |-> npa]
    ELSE [raised |-> FALSE, S |-> r.S,
          npa |-> \/ npa
                  \/ /\ q.queue[Len(q.queue)].id # job.id
                     /\ ~is_backfill_job(r.S, job.id)]

scheduling(S, npa, q, job, now) ==
    SchedulingAdded(schedule_add(S, job, now), npa, q, job)

\* __arrival with a scheduler, one turn of its loop: the front of stream
\* arrival_gid goes to queue.add, the stream yields its next job, and the
\* job, when admitted, goes to __scheduling.
ArrivalAdmitPlanned(pool, maxJobs) ==
    /\ pc = "arrival"
    /\ arrival_timestamp = current_time
    /\ \E q1 \in {QueueAdd(QState, input_jobs[arrival_gid], current_time)} :
       \E r \in {IF AddStatus(QState, input_jobs[arrival_gid]) = 0
                 THEN scheduling(SState, new_priority_arrival, q1,
                                 input_jobs[arrival_gid], current_time)
                 ELSE [raised |-> FALSE, S |-> SState,
                       npa |-> new_priority_arrival]} :
           /\ SetQState(q1)
           /\ SetSState(r.S)
           /\ new_priority_arrival' = r.npa
           /\ pc' = IF r.raised THEN "raised" ELSE pc
    /\ \E job \in NextOfStream(job_generators, arrival_gid, pool, maxJobs) :
            set_next_arrival_job(arrival_gid, job)
    /\ UNCHANGED <<nmVars, current_state, current_time, time_limit, output,
                   trace, call, started, planned, first_run, file_stream,
                   queue_policy,
                   schedule_recreation>>

\* __completion with a scheduler: with jobs queued and jobs completed, a
\* new priority arrival or a job that ends before its scheduled release
\* asks for the schedule to be re-created.
CompletionPlanned ==
    /\ pc = "completion"
    /\ LET r == stop_processing(current_time)
           asked == queue # <<>> /\ r.out # <<>>
           early == \E k \in 1 .. Len(r.out) :
                       scheduled_release_timestamp(r.out[k])
                           # release_timestamp(r.out[k])
       IN  /\ nodes' = r.nodes
           /\ jobs_allocation' = r.allocs
           /\ nm_num_jobs_per_source' = r.counts
           /\ output' = output \o r.out
           /\ trace_update(queue, r.allocs, "c")
           /\ schedule_recreation' =
                 IF asked /\ (new_priority_arrival \/ early) THEN TRUE
                 ELSE schedule_recreation
           /\ new_priority_arrival' =
                 IF asked THEN FALSE ELSE new_priority_arrival
    /\ pc' = "submission"
    /\ started' = <<>>
    /\ UNCHANGED <<qmVars, current_state, current_time, time_limit,
                   job_generators, input_jobs, arrival_gid, arrival_timestamp,
                   call, smVars, scheduled_start, planned, first_run, file_stream, queue_policy>>

\* The for loop of __submission over the scheduled elements: each job is
\* pulled from the queue by its id and assigned to its nodes; a job that
\* the pull moved from the buffer into the queue goes to __scheduling. D is
\* [raised, q, nodes, allocs, counts, S, npa, started].
RECURSIVE DispatchLoop(_, _, _)
\* The rest of a turn of the loop, the job being assigned (a), the buffer
\* looked at (g) and the job it gave scheduled (sc).
DispatchAssigned(elements, D, now, p, a, g, sc) ==
    IF a.raised
    THEN [D EXCEPT !.raised = TRUE, !.q = p.q, !.nodes = a.nodes]
    ELSE DispatchLoop(Tail(elements),
                      [raised |-> sc.raised, q |-> g.q, nodes |-> a.nodes,
                       allocs |-> a.allocs, counts |-> a.counts, S |-> sc.S,
                       npa |-> sc.npa,
                       started |-> Append(D.started, Head(elements).job_id)],
                      now)

DispatchBuffered(elements, D, now, p, a, g) ==
    DispatchAssigned(elements, D, now, p, a, g,
                     IF IsJob(g.job)
                     THEN scheduling(D.S, D.npa, g.q, g.job, now)
                     ELSE [raised |-> FALSE, S |-> D.S, npa |-> D.npa])

DispatchPulled(elements, D, now, p) ==
    IF p.raised THEN [D EXCEPT !.raised = TRUE]
    ELSE DispatchBuffered(elements, D, now, p,
                          assign_processing(D.nodes, D.allocs, D.counts,
                                            p.job, Head(elements).node_ids,
                                            now),
                          get_new_added_from_buffer(p.q, now))

DispatchLoop(elements, D, now) ==
    IF elements = <<>> \/ D.raised THEN D
    ELSE DispatchPulled(elements, D, now,
                        pull(D.q, 0, Head(elements).job_id, now))

\* __submission with a scheduler, one turn of its while loop: something is
\* scheduled to start now; the schedule is re-created first when that was
\* asked for; the elements that start now are dispatched.
SubmissionPlanned ==
    /\ pc = "submission"
    /\ has_scheduled_elements(SState, current_time)
    /\ \E recreate \in {schedule_recreation \/ new_priority_arrival} :
       \E made \in {IF recreate
                    THEN create_schedule_by_queue(
                             set_initial_busy(
                                 SState,
                                 get_scheduled_release_timestamps(
                                     jobs_allocation),
                                 current_time),
                             queue)
                    ELSE [raised |-> FALSE,
                          S |-> [SState EXCEPT !.now = current_time]]} :
       \E due \in {get_scheduled_elements(made.S, current_time)} :
       \E D \in {IF made.raised
                 THEN [raised |-> TRUE, q |-> QState, nodes |-> nodes,
                       allocs |-> jobs_allocation,
                       counts |-> nm_num_jobs_per_source, S |-> made.S,
                       npa |-> FALSE, started |-> started]
                 ELSE DispatchLoop(due.elements,
                          [raised |-> FALSE, q |-> QState, nodes |-> nodes,
                           allocs |-> jobs_allocation,
                           counts |-> nm_num_jobs_per_source, S |-> due.S,
                           npa |-> FALSE, started |-> started],
                          current_time)} :
           /\ SetQState(D.q)
           /\ SetSState(D.S)
           /\ nodes' = D.nodes
           /\ jobs_allocation' = D.allocs
           /\ nm_num_jobs_per_source' = D.counts
           /\ started' = D.started
           /\ new_priority_arrival' = D.npa
           /\ schedule_recreation' = (made.raised /\ recreate)
           /\ pc' = IF D.raised THEN "raised" ELSE pc
    /\ UNCHANGED <<current_state, current_time, time_limit, job_generators,
                   input_jobs, arrival_gid, arrival_timestamp, output, trace,
                   call, planned, first_run, file_stream, queue_policy>>

\* __submission with a scheduler, the end of its loop: nothing is scheduled
\* to start now.
SubmissionEndPlanned ==
    /\ pc = "submission"
    /\ ~has_scheduled_elements(SState, current_time)
    /\ IF started # <<>>
       THEN trace_update(queue, jobs_allocation, "s")
       ELSE trace' = trace
    /\ sm_current_time' = current_time
    /\ pc' = "set_next_timestamp"
    /\ UNCHANGED <<nmVars, qmVars, current_state, current_time, time_limit,
                   job_generators, input_jobs, arrival_gid, arrival_timestamp,
                   output, call, started, schedules, num_idle_nodes_now,
                   plVars, planned, first_run, file_stream, queue_policy>>

----------------------------------------------------------------------------
(* The NodeManager under direct calls *)

NMJobs ==
    {Job(0, s, 0, e, n, 0) : s \in Sources, e \in ExecutionTimes,
                             n \in 1 .. NumNodes}

NodeIdLists ==
    UNION {[1 .. len -> NodeIds] : len \in 1 .. NumNodes}

NMStart(job, now) ==
    /\ Len(jobs_allocation) < MaxAllocations
    /\ IF start_raises(nodes, job)
       THEN /\ call' = [op |-> "start", raised |-> TRUE, job |-> job,
                        status |-> None]
            /\ UNCHANGED nmVars
       ELSE /\ start_processing(job, now)
            /\ call' = [op |-> "start", raised |-> FALSE,
                        job |-> [job EXCEPT !.submission_timestamp = now],
                        status |-> None]
    /\ UNCHANGED <<qmVars, qssVars, started>>
    /\ UNCHANGED <<smVars, plVars, planned, first_run, file_stream, queue_policy>>

NMAssign(job, node_ids, now) ==
    /\ Len(jobs_allocation) < MaxAllocations
    /\ LET r == assign_processing(nodes, jobs_allocation,
                                  nm_num_jobs_per_source, job, node_ids, now) IN
        /\ nodes' = r.nodes
        /\ jobs_allocation' = r.allocs
        /\ nm_num_jobs_per_source' = r.counts
        /\ call' = [op |-> "assign", raised |-> r.raised, job |-> r.job,
                    status |-> None]
    /\ UNCHANGED <<qmVars, qssVars, started>>
    /\ UNCHANGED <<smVars, plVars, planned, first_run, file_stream, queue_policy>>

NMStop(now) ==
    /\ LET r == stop_processing(now) IN
        /\ nodes' = r.nodes
        /\ jobs_allocation' = r.allocs
        /\ nm_num_jobs_per_source' = r.counts
    /\ call' = [op |-> "stop", raised |-> FALSE, job |-> NoJob,
                status |-> None]
    /\ UNCHANGED <<qmVars, qssVars, started>>
    /\ UNCHANGED <<smVars, plVars, planned, first_run, file_stream, queue_policy>>

\* NodeManager.reset
NMReset ==
    /\ nodes' = [i \in DOMAIN nodes |-> "Idle"]
    /\ jobs_allocation' = <<>>
    /\ nm_num_jobs_per_source' = [s \in Sources |-> 0]
    /\ call' = [op |-> "reset", raised |-> FALSE, job |-> NoJob,
                status |-> None]
    /\ UNCHANGED <<qmVars, qssVars, started>>
    /\ UNCHANGED <<smVars, plVars, planned, first_run, file_stream, queue_policy>>

InitNM == QSSInit(NumNodes, None, EmptyPolicy, None, FALSE)

NextNM ==
    \/ \E job \in NMJobs, now \in Times : NMStart(job, now)
    \/ \E job \in NMJobs, node_ids \in NodeIdLists, now \in Times :
            NMAssign(job, node_ids, now)
    \/ \E now \in Times : NMStop(now)
    \/ NMReset

SpecNM == InitNM /\ [][NextNM]_vars

----------------------------------------------------------------------------
(* The QueueManager under direct calls *)

\* The jobs passed to add: Job objects told apart by id (id(job) is never 0),
\* of either source, the odd ones created with priority 1, the even ones
\* with priority 0.
QMJobs ==
    {Job(i, s, 0, 1, 1, i % 2) : i \in 1 .. MaxHeld, s \in Sources}

HeldIds(q) ==
    {q.queue[k].id : k \in 1 .. Len(q.queue)}
        \cup UNION {{q.buffer[s][k].id : k \in 1 .. Len(q.buffer[s])} :
                        s \in Sources}

NumHeld(q) ==
    Len(q.queue) + SumSeq([k \in 1 .. 2 |->
                             Len(q.buffer[IF k = 1 THEN "A" ELSE "B"])])

Limit(total, per_source, a) ==
    [k \in LimitKeys |-> CASE k = "_total" -> total
                            [] k = "_per_source" -> per_source
                            [] k = "A" -> a
                            [] OTHER -> None]

\* The QueueManagers of the checks: [policy, limit, use_buffer].
QMConfigs ==
    {[policy |-> QUEUE_POLICY, limit |-> None, use_buffer |-> FALSE],
     [policy |-> [limit |-> Limit(None, 1, 2), discipline |-> "priority",
                  job_init |-> "dummy"],
      limit |-> None, use_buffer |-> TRUE],
     [policy |-> [limit |-> Limit(None, None, None),
                  discipline |-> "priority", job_init |-> "dummy"],
      limit |-> 2, use_buffer |-> FALSE],
     [policy |-> [limit |-> Limit(1, None, None), discipline |-> "fifo",
                  job_init |-> "dummy"],
      limit |-> None, use_buffer |-> TRUE],
     [policy |-> EmptyPolicy, limit |-> None, use_buffer |-> FALSE]}

\* The QueueManagers whose total limit is 0, given as the constructor
\* argument or as the '_total' key of the policy.
QMZeroConfigs ==
    {[policy |-> [limit |-> Limit(t, None, None), discipline |-> d,
                  job_init |-> "dummy"],
      limit |-> l, use_buffer |-> b] :
        t \in {None, 0}, l \in {None, 0}, d \in {"fifo", "priority"},
        b \in BOOLEAN} \ 
    {[policy |-> [limit |-> Limit(None, None, None), discipline |-> d,
                  job_init |-> "dummy"],
      limit |-> None, use_buffer |-> b] :
        d \in {"fifo", "priority"}, b \in BOOLEAN}

\* The "now" of the next direct call: the caller's clock stands or ticks.
Clock == {t \in Times : t >= current_time /\ t <= current_time + 1}

\* add(job, now) by a caller whose clock does not run backwards.
QMAdd(job, now) ==
    /\ job.id \notin HeldIds(QState)
    /\ NumHeld(QState) < MaxHeld
    /\ LET q == QueueAdd(QState, job, now) IN
        /\ q.num_dropped["_total"] <= MaxDropped
        /\ SetQState(q)
    /\ current_time' = now
    /\ call' = [op |-> "add", raised |-> FALSE, job |-> job,
                status |-> AddStatus(QState, job)]
    /\ UNCHANGED <<nmVars, current_state, time_limit, job_generators,
                   input_jobs, arrival_gid, arrival_timestamp, output, trace,
                   pc, started>>
    /\ UNCHANGED <<smVars, plVars, planned, first_run, file_stream, queue_policy>>

\* get_next(now): list.pop(0) raises on an empty queue.
QMGetNext(now) ==
    /\ IF queue = <<>>
       THEN /\ call' = [op |-> "get_next", raised |-> TRUE, job |-> NoJob,
                        status |-> None]
            /\ UNCHANGED qmVars
       ELSE /\ SetQState(get_next(QState, now))
            /\ call' = [op |-> "get_next", raised |-> FALSE,
                        job |-> queue[1], status |-> None]
    /\ current_time' = now
    /\ UNCHANGED <<nmVars, current_state, time_limit, job_generators,
                   input_jobs, arrival_gid, arrival_timestamp, output, trace,
                   pc, started>>
    /\ UNCHANGED <<smVars, plVars, planned, first_run, file_stream, queue_policy>>

QMPull(eid, job_id, now) ==
    /\ LET r == pull(QState, eid, job_id, now) IN
        /\ SetQState(r.q)
        /\ call' = [op |-> "pull", raised |-> r.raised, job |-> r.job,
                    status |-> None]
    /\ current_time' = now
    /\ UNCHANGED <<nmVars, current_state, time_limit, job_generators,
                   input_jobs, arrival_gid, arrival_timestamp, output, trace,
                   pc, started>>
    /\ UNCHANGED <<smVars, plVars, planned, first_run, file_stream, queue_policy>>

\* QueueManager.reset, as QSS.__reset calls it when the clock restarts.
QMReset ==
    /\ SetQState(QueueManagerReset(QState))
    /\ current_time' = 0
    /\ call' = [op |-> "reset", raised |-> FALSE, job |-> NoJob,
                status |-> None]
    /\ UNCHANGED <<nmVars, current_state, time_limit, job_generators,
                   input_jobs, arrival_gid, arrival_timestamp, output, trace,
                   pc, started>>
    /\ UNCHANGED <<smVars, plVars, planned, first_run, file_stream, queue_policy>>

InitQM ==
    \E c \in QMConfigs :
        QSSInit(NumNodes, None, c.policy, c.limit, c.use_buffer)

NextQM ==
    \/ \E job \in QMJobs, now \in Clock : QMAdd(job, now)
    \/ \E now \in Clock : QMGetNext(now)
    \/ \E eid \in 0 .. MaxHeld, job_id \in {None} \cup (1 .. MaxHeld),
          now \in Clock : QMPull(eid, job_id, now)
    \/ QMReset

SpecQM == InitQM /\ [][NextQM]_vars

InitQMZero ==
    \E c \in QMZeroConfigs :
        QSSInit(NumNodes, None, c.policy, c.limit, c.use_buffer)

SpecQMZero == InitQMZero /\ [][NextQM]_vars

----------------------------------------------------------------------------
(* One NodeSchedule under direct calls *)

\* NodeSchedule.insert(start, end, job_id) on the schedule of node 0.
NSInsert(start, end) ==
    /\ Len(schedules[0]) < MaxRecords
    /\ LET r == insert(schedules[0], start, end, Len(schedules[0]) + 1) IN
        /\ schedules' = [schedules EXCEPT ![0] = r.timetable]
        /\ call' = [op |-> "insert", raised |-> r.raised, job |-> NoJob,
                    status |-> None]
    /\ UNCHANGED <<nmVars, qmVars, qssVars, num_idle_nodes_now,
                   sm_current_time, plVars, started, planned, first_run, file_stream, queue_policy>>

\* NodeSchedule.set_initial_busy_time(start, end): reset, then one record.
NSSetInitialBusyTime(start, end) ==
    /\ schedules' = [schedules EXCEPT ![0] =
                                      <<Reservation(start, end, None)>>]
    /\ call' = [op |-> "set_initial_busy_time", raised |-> FALSE,
                job |-> NoJob, status |-> None]
    /\ UNCHANGED <<nmVars, qmVars, qssVars, num_idle_nodes_now,
                   sm_current_time, plVars, started, planned, first_run, file_stream, queue_policy>>

\* NodeSchedule.reset
NSReset ==
    /\ schedules' = [schedules EXCEPT ![0] = <<>>]
    /\ call' = [op |-> "reset", raised |-> FALSE, job |-> NoJob,
                status |-> None]
    /\ UNCHANGED <<nmVars, qmVars, qssVars, num_idle_nodes_now,
                   sm_current_time, plVars, started, planned, first_run, file_stream, queue_policy>>

\* The state ScheduleManager.__init__ leaves, for num nodes.
ScheduleManagerInit(num) ==
    /\ schedules = [i \in 0 .. (num - 1) |-> <<>>]
    /\ num_idle_nodes_now = num
    /\ sm_current_time = 0

InitNS ==
    /\ QSSFields(1, None, EmptyPolicy, None, FALSE)
    /\ file_stream = NoFile
    /\ queue_policy = NoManagers
    /\ ScheduleManagerInit(1)

NextNS ==
    \/ \E start, end \in PlanTimes : start < end /\ NSInsert(start, end)
    \/ \E start, end \in PlanTimes :
            start < end /\ NSSetInitialBusyTime(start, end)
    \/ NSReset

SpecNS == InitNS /\ [][NextNS]_vars

----------------------------------------------------------------------------
(* The ScheduleManager under direct calls *)

\* The nodes of the ScheduleManager of the checks.
SchedNodes == NumNodes + 1

LastPlanTime == CHOOSE t \in PlanTimes : \A u \in PlanTimes : u <= t

\* The maps from busy nodes to their release timestamps, all after now, as
\* far off as the longest wall time.
ReleaseMaps(now) ==
    UNION {[busy -> {t \in PlanTimes : t > now /\ t <= now + 2}] :
              busy \in SUBSET (0 .. (SchedNodes - 1))}

\* id(job) of a job the schedules do not hold yet.
NextJobId(scheds) ==
    1 + Cardinality(UNION {{scheds[i][k].job_id : k \in 1 .. Len(scheds[i])} :
                              i \in DOMAIN scheds} \ {None})

\* The jobs of the queue handed to the planner: one job.
PlanQueues(scheds) ==
    {<<PlanJob(NextJobId(scheds), w, n)>> :
        w \in WallTimes, n \in 1 .. SchedNodes}

\* One-job queues of short jobs, for one node or for all, and of jobs the
\* planner cannot take: a job
\* without its wall time or its number of nodes, or one that asks for more
\* nodes than there are.
BadPlanQueues(scheds) ==
    {<<PlanJob(NextJobId(scheds), 1, n)>> : n \in {1, SchedNodes}}
    \cup {<<PlanJob(NextJobId(scheds), None, 1)>>,
          <<PlanJob(NextJobId(scheds), 1, None)>>,
          <<PlanJob(NextJobId(scheds), 1, SchedNodes + 1)>>}

Ends(scheds) ==
    UNION {{scheds[i][k].end : k \in 1 .. Len(scheds[i])} : i \in DOMAIN scheds}

\* The time of the next call: the caller's clock stands or ticks.
SMClock ==
    {t \in PlanTimes : t >= sm_current_time /\ t <= sm_current_time + 1}

SMSetInitialBusyTimes(node_release_timestamps, now) ==
    /\ set_initial_busy_times(node_release_timestamps, now)
    /\ planned' = NoPlan
    /\ call' = [op |-> "set_initial_busy_times", raised |-> FALSE,
                job |-> NoJob, status |-> None]
    /\ UNCHANGED <<nmVars, qmVars, qssVars, plVars, started, first_run, file_stream, queue_policy>>

SMGetBackfillElements(jobs, time) ==
    /\ get_backfill_elements(jobs, time)
    /\ \A t \in Ends(schedules') : t <= LastPlanTime
    /\ call' = [op |-> "get_backfill_elements", raised |-> planned'.raised,
                job |-> NoJob, status |-> None]
    /\ UNCHANGED <<nmVars, qmVars, qssVars, plVars, started, first_run, file_stream, queue_policy>>

InitSM ==
    /\ QSSFields(SchedNodes, None, EmptyPolicy, None, FALSE)
    /\ file_stream = NoFile
    /\ queue_policy = NoManagers
    /\ ScheduleManagerInit(SchedNodes)

NextSM ==
    \/ \E now \in SMClock :
          \E node_release_timestamps \in ReleaseMaps(now) :
            SMSetInitialBusyTimes(node_release_timestamps, now)
    \/ \E jobs \in PlanQueues(schedules),
          time \in {None} \cup SMClock : SMGetBackfillElements(jobs, time)

SpecSM == InitSM /\ [][NextSM]_vars

NextSMBad ==
    \/ \E now \in SMClock :
          \E node_release_timestamps \in ReleaseMaps(now) :
            SMSetInitialBusyTimes(node_release_timestamps, now)
    \/ \E jobs \in BadPlanQueues(schedules),
          time \in {None} \cup SMClock : SMGetBackfillElements(jobs, time)

SpecSMBad == InitSM /\ [][NextSMBad]_vars

----------------------------------------------------------------------------
(* A run of the simulator *)

JobPool ==
    {[arrival |-> a, execution |-> e, num_nodes |-> n, priority |-> 0] :
        a \in Times, e \in ExecutionTimes, n \in 1 .. NumNodes}

\* Two streams, no time limit; the queue of QUEUE_POLICY as it is, or with
\* a total limit of 1 and the overflow buffer.
Init ==
    \E cfg \in {<<None, FALSE>>, <<1, TRUE>>} :
        QSSInit(NumNodes, None, QUEUE_POLICY, cfg[1], cfg[2])

Next ==
    \/ Run(2, JobPool, MaxJobs)
    \/ NextAction
    \/ ArrivalAdmit(JobPool, MaxJobs)
    \/ ArrivalEnd
    \/ Completion
    \/ SubmissionStart
    \/ SubmissionEnd
    \/ SetNextTimestamp

Spec == Init /\ [][Next]_vars

\* The same run with a total limit of 1 on the queue, the overflow buffer
\* being on or off.
InitLimits ==
    \E use_buffer \in BOOLEAN :
        QSSInit(NumNodes, None, QUEUE_POLICY, 1, use_buffer)

SpecLimits == InitLimits /\ [][Next]_vars

\* The same run under a time limit: none, or one of Times (0 included).
InitLimit ==
    \E tl \in {None} \cup Times :
        QSSInit(NumNodes, tl, QUEUE_POLICY, None, FALSE)

SpecLimit == InitLimit /\ [][Next]_vars

\* Three streams of one-node jobs that run for one time unit.
UnitPool ==
    {[arrival |-> a, execution |-> 1, num_nodes |-> 1, priority |-> 0] :
        a \in Times}

InitStreams3 == QSSInit(NumNodes, None, QUEUE_POLICY, None, FALSE)

NextStreams3 ==
    \/ Run(3, UnitPool, MaxJobs)
    \/ NextAction
    \/ ArrivalAdmit(UnitPool, MaxJobs)
    \/ ArrivalEnd
    \/ Completion
    \/ SubmissionStart
    \/ SubmissionEnd
    \/ SetNextTimestamp

SpecStreams3 == InitStreams3 /\ [][NextStreams3]_vars

\* Scenario S1 and its neighbours: one node, one stream, no limits; jobs of
\* one node that arrive at 0 or 1 and run for 2 or 5.
PoolS1 ==
    {[arrival |-> a, execution |-> e, num_nodes |-> 1, priority |-> 0] :
        a \in {0, 1}, e \in {2, 5}}

InitS1 == QSSInit(1, None, QUEUE_POLICY, None, FALSE)

NextS1 ==
    \/ Run(1, PoolS1, MaxJobs)
    \/ NextAction
    \/ ArrivalAdmit(PoolS1, MaxJobs)
    \/ ArrivalEnd
    \/ Completion
    \/ SubmissionStart
    \/ SubmissionEnd
    \/ SetNextTimestamp

SpecS1 == InitS1 /\ [][NextS1]_vars

\* Scenario S3 and its neighbours: two nodes, one stream; the jobs J1 (2
\* nodes, exec 10, priority 0), J2 (1 node, exec 1, priority 0) and J3 (1
\* node, exec 1, priority 100), arriving at 0 or 1.
PoolS3 ==
    {[arrival |-> a, execution |-> j[2], num_nodes |-> j[1],
      priority |-> j[3]] :
        a \in {0, 1}, j \in {<<2, 10, 0>>, <<1, 1, 0>>, <<1, 1, 100>>}}

InitS3 == QSSInit(2, None, QUEUE_POLICY, None, FALSE)

NextS3 ==
    \/ Run(1, PoolS3, MaxJobs)
    \/ NextAction
    \/ ArrivalAdmit(PoolS3, MaxJobs)
    \/ ArrivalEnd
    \/ Completion
    \/ SubmissionStart
    \/ SubmissionEnd
    \/ SetNextTimestamp

SpecS3 == InitS3 /\ [][NextS3]_vars

\* QSS.__init__ with use_scheduler=True.
QSSInitPlanner(num, tl, policy, queue_limit, use_buffer) ==
    /\ QSSFields(num, tl, policy, queue_limit, use_buffer)
    /\ file_stream = NoFile
    /\ queue_policy = NoManagers
    /\ ScheduleManagerInit(num)

\* Scenario S4 and its neighbours: four nodes, the planner, one stream; the
\* jobs J1 (4 nodes, wall 10, exec 10), J2 (2 nodes, wall 3, exec 3) and J3
\* (1 node, wall 2, exec 2), arriving at 0 or 1.
PoolS4 ==
    {[arrival |-> a, execution |-> j[2], wall_time |-> j[2],
      num_nodes |-> j[1], priority |-> 0] :
        a \in {0, 1}, j \in {<<4, 10>>, <<2, 3>>, <<1, 2>>}}

InitS4 == QSSInitPlanner(4, None, QUEUE_POLICY, None, FALSE)

NextS4 ==
    \/ Run(1, PoolS4, MaxJobs)
    \/ NextAction
    \/ ArrivalAdmitPlanned(PoolS4, MaxJobs)
    \/ ArrivalEnd
    \/ CompletionPlanned
    \/ SubmissionPlanned
    \/ SubmissionEndPlanned
    \/ SetNextTimestamp

SpecS4 == InitS4 /\ [][NextS4]_vars

\* Scenario S5 and its neighbours: two nodes, the planner, one stream; the
\* jobs J1 (2 nodes, wall 10, exec 4) and J2 (1 node, wall 2, exec 2),
\* arriving at 1 or 2.
PoolS5 ==
    {[arrival |-> a, execution |-> j[2], wall_time |-> j[3],
      num_nodes |-> j[1], priority |-> 0] :
        a \in {1, 2}, j \in {<<2, 4, 10>>, <<1, 2, 2>>}}

InitS5 == QSSInitPlanner(2, None, QUEUE_POLICY, None, FALSE)

NextS5 ==
    \/ Run(1, PoolS5, MaxJobs)
    \/ NextAction
    \/ ArrivalAdmitPlanned(PoolS5, MaxJobs)
    \/ ArrivalEnd
    \/ CompletionPlanned
    \/ SubmissionPlanned
    \/ SubmissionEndPlanned
    \/ SetNextTimestamp

SpecS5 == InitS5 /\ [][NextS5]_vars

\* Two runs of one QSS with the planner: scenario S5 and its neighbours, and
\* a second run after the first has returned.
NextRerun ==
    \/ NextS5
    \/ RunAgain(1, PoolS5, MaxJobs)

SpecRerun == InitS5 /\ [][NextRerun]_vars

----------------------------------------------------------------------------
(* stream_generator_by_file (src/qss/stream.py) *)

\* The rows of a replay file, all numeric: the leading field, the execution
\* time and the number of nodes of a line "a,e,n".
MaxRows == 2
FileRow == [first : 0 .. 2, execution_time : 0 .. 2, num_nodes : 1 .. 2]
FileRows == UNION {[1 .. len -> FileRow] : len \in 1 .. MaxRows}
FileTimeLimits == {None, 0, 3}

\* The latest timestamp a replay is followed to.
LastFileTime == 6

\* The end of a pass over the file (the for loop is over or was left by
\* break): the generator ends without a time limit or with a falsy arrival
\* timestamp, and when the while condition fails for the new
\* latest_arrival_timestamp; otherwise the file is read again.
RECURSIVE StreamAdvance(_)
EndOfPass(F) ==
    IF Falsy(F.time_limit) \/ Falsy(F.arrival_timestamp)
    THEN [F EXCEPT !.ended = TRUE]
    ELSE IF F.arrival_timestamp < F.time_limit
         THEN StreamAdvance([F EXCEPT
                               !.latest_arrival_timestamp = F.arrival_timestamp,
                               !.pos = 1])
         ELSE [F EXCEPT !.latest_arrival_timestamp = F.arrival_timestamp,
                        !.ended = TRUE]

\* A line of the file, its arrival timestamp being computed: past the time
\* limit the pass is left, a row with execution time 0 is skipped, any other
\* row is yielded as a job.
ReadRow(F, row, arrival) ==
    IF ~Falsy(F.time_limit) /\ F.time_limit < arrival
    THEN EndOfPass([F EXCEPT !.arrival_timestamp = arrival])
    ELSE IF row.execution_time = 0
         THEN StreamAdvance([F EXCEPT !.arrival_timestamp = arrival,
                                      !.pos = @ + 1])
         ELSE [F EXCEPT !.arrival_timestamp = arrival,
                        !.pos = @ + 1,
                        !.yielded =
                            Append(@, [arrival_timestamp |-> arrival,
                                       execution_time |-> row.execution_time,
                                       num_nodes |-> row.num_nodes])]

\* generator.next(): the generator runs to its next yield or to its end.
StreamAdvance(F) ==
    IF F.pos > Len(F.rows) THEN EndOfPass(F)
    ELSE ReadRow(F, F.rows[F.pos],
                 F.latest_arrival_timestamp + F.rows[F.pos].first)

FileStreamVars ==
    <<nmVars, qmVars, qssVars, smVars, plVars, call, started, planned,
      first_run, queue_policy>>

\* One call of next() on the generator.
FileStreamNext ==
    /\ ~file_stream.ended
    /\ file_stream' = StreamAdvance(file_stream)
    /\ file_stream'.arrival_timestamp <= LastFileTime
    /\ UNCHANGED FileStreamVars

\* stream_generator_by_file(file_name, time_limit=...) on a file that exists.
InitFile ==
    /\ QSSFields(1, None, EmptyPolicy, None, FALSE)
    /\ schedules = <<>>
    /\ num_idle_nodes_now = 0
    /\ sm_current_time = 0
    /\ queue_policy = NoManagers
    /\ \E rows \in FileRows, tl \in FileTimeLimits :
          file_stream = [NoFile EXCEPT !.rows = rows, !.time_limit = tl,
                                       !.ended = FALSE]

NextFile == FileStreamNext

SpecFile == InitFile /\ [][NextFile]_vars

----------------------------------------------------------------------------
(* QueueManagers built from the one QUEUE_POLICY *)

MaxManagers == 2

\* QueueManager.__init__(policy=QUEUE_POLICY, limit, with_buffer):
\* self.__limits is the dict policy['limit'] itself, so that a limit that is
\* given is written into the dict of the policy, which every manager built
\* from the policy reads.
PolicyConstruct(limit, use_buffer) ==
    /\ Len(queue_policy.managers) < MaxManagers
    /\ LET dict == IF Falsy(limit) THEN queue_policy.limit
                   ELSE [queue_policy.limit EXCEPT !["_total"] = limit]
           built == [QueueManagerInit(QUEUE_POLICY, None, use_buffer)
                        EXCEPT !.limits = dict]
       IN  queue_policy' =
              [limit |-> dict,
               managers |->
                  Append([m \in 1 .. Len(queue_policy.managers) |->
                            [queue_policy.managers[m] EXCEPT !.limits = dict]],
                         built)]
    /\ call' = [op |-> "init", raised |-> FALSE, job |-> NoJob,
                status |-> limit]
    /\ UNCHANGED <<nmVars, qmVars, qssVars, smVars, plVars, started, planned,
                   first_run, file_stream>>

\* add(job, 0) on the manager at position m.
PolicyAdd(m, job) ==
    /\ job.id \notin HeldIds(queue_policy.managers[m])
    /\ LET q == QueueAdd(queue_policy.managers[m], job, 0) IN
        /\ q.num_dropped["_total"] <= MaxDropped
        /\ queue_policy' = [queue_policy EXCEPT !.managers[m] = q]
    /\ call' = [op |-> "add", raised |-> FALSE, job |-> job,
                status |-> AddStatus(queue_policy.managers[m], job)]
    /\ UNCHANGED <<nmVars, qmVars, qssVars, smVars, plVars, started, planned,
                   first_run, file_stream>>

InitPolicy ==
    /\ QSSFields(1, None, QUEUE_POLICY, None, FALSE)
    /\ schedules = <<>>
    /\ num_idle_nodes_now = 0
    /\ sm_current_time = 0
    /\ file_stream = NoFile
    /\ queue_policy = NoManagers

NextPolicy ==
    \/ \E limit \in {None, 1, 2}, use_buffer \in BOOLEAN :
          PolicyConstruct(limit, use_buffer)
    \/ \E m \in 1 .. Len(queue_policy.managers) :
          \E job \in {Job(i, "A", 0, 1, 1, 0) : i \in 1 .. MaxHeld} :
             PolicyAdd(m, job)

SpecPolicy == InitPolicy /\ [][NextPolicy]_vars

----------------------------------------------------------------------------
(* Claims *)

\* How often node id i occurs in the node-id lists of the allocations.
Occurrences(allocs, i) ==
    SumSeq([k \in 1 .. Len(allocs) |->
              Cardinality({m \in 1 .. Len(allocs[k].node_ids) :
                             allocs[k].node_ids[m] = i})])

\* C1: in every state reached by start, assign, stop and reset calls, the
\* Busy nodes are exactly the disjoint union of the allocations' node ids:
\* a Busy id occurs in exactly one allocation, an Idle id in none, the number
\* of Busy nodes is the sum of num_nodes over the allocations, and idle plus
\* busy is N.
C1_BusyIsDisjointUnionOfAllocations ==
    /\ \A i \in NodeIds :
          Occurrences(jobs_allocation, i) = IF nodes[i] = "Busy" THEN 1 ELSE 0
    /\ num_busy_nodes(nodes) =
          SumSeq([k \in 1 .. Len(jobs_allocation) |->
                    jobs_allocation[k].job.num_nodes])
    /\ num_idle_nodes(nodes) + num_busy_nodes(nodes) = NumNodes

HasRepeat(s) == \E k, m \in 1 .. Len(s) : k # m /\ s[k] = s[m]

\* C2: assign is all-or-nothing: called with a list whose length differs
\* from job.num_nodes, or that names a Busy node (node 0 included) or names
\* a node twice, it raises and leaves the nodes, the allocations, the
\* per-source counters and the job's submission_timestamp as they were.
C2_AssignAllOrNothing ==
    [][\A job \in NMJobs, node_ids \in NodeIdLists, now \in Times :
          (/\ NMAssign(job, node_ids, now)
           /\ \/ Len(node_ids) # job.num_nodes
              \/ \E k \in 1 .. Len(node_ids) : nodes[node_ids[k]] = "Busy"
              \/ HasRepeat(node_ids))
          => /\ call'.raised
             /\ UNCHANGED nmVars
             /\ call'.job.submission_timestamp = job.submission_timestamp]_vars

FrontsLeft == \E g \in 1 .. Len(input_jobs) : IsJob(input_jobs[g])

\* C3: the run loop is in Stop only when every stream front is empty and
\* every allocation is released, or a time limit is set and current_time is
\* past it.
C3_StopOnlyWhenDrainedOrOverLimit ==
    current_state = "Stop" =>
        \/ ~FrontsLeft /\ jobs_allocation = <<>>
        \/ time_limit # None /\ current_time > time_limit

\* The least element of a non-empty set of numbers; None for the empty set.
MinOf(S) == IF S = {} THEN None ELSE CHOOSE x \in S : \A y \in S : x <= y

FrontArrivals ==
    {input_jobs[g].arrival_timestamp :
        g \in {h \in 1 .. Len(input_jobs) : IsJob(input_jobs[h])}}

AllocationReleases ==
    {jobs_allocation[k].job.submission_timestamp
        + jobs_allocation[k].job.execution_time :
            k \in 1 .. Len(jobs_allocation)}

\* C4: each step of choose_next_timestamp taken while a stream front or an
\* allocation exists sets the clock to min(t_a, t_r), t_a the least arrival
\* over all stream fronts and t_r the earliest release, and the state to
\* Arrival when t_r is absent or t_r > t_a, to Completion otherwise (Stop
\* only past the time limit).
C4_ClockIsMinOfArrivalAndRelease ==
    [][(pc = "set_next_timestamp" /\ (FrontsLeft \/ jobs_allocation # <<>>))
        => LET t_a == MinOf(FrontArrivals)
               t_r == MinOf(AllocationReleases)
               arrival == t_a # None /\ (t_r = None \/ t_r > t_a)
           IN  /\ current_time' = IF arrival THEN t_a ELSE t_r
               /\ \/ current_state' = IF arrival THEN "Arrival"
                                      ELSE "Completion"
                  \/ /\ time_limit # None /\ current_time' > time_limit
                     /\ current_state' = "Stop"]_vars

\* The (arrival, execution, submission) of the jobs of a sequence.
Timing(jobs) ==
    [k \in 1 .. Len(jobs) |->
        <<jobs[k].arrival_timestamp, jobs[k].execution_time,
          jobs[k].submission_timestamp>>]

\* The stream of scenario S1, as far as the run has asked it: it has yielded
\* job1 (arrival 0, exec 5) and job2 (arrival 1, exec 2) and has ended, or it
\* has yielded job1 only and job1 is still its front.
StreamOfS1 ==
    LET yielded == Timing(job_generators[1]) IN
    \/ yielded = <<<<0, 5, None>>, <<1, 2, None>>>> /\ ~IsJob(input_jobs[1])
    \/ yielded = <<<<0, 5, None>>>> /\ IsJob(input_jobs[1])

\* C5: scenario S1: one node, one stream that yields job1 (arrival 0, exec 5)
\* and then job2 (arrival 1, exec 2): the run ends with output_channel =
\* [job1, job2], job1 submitted at 0 (released at 5), job2 submitted at 5
\* (released at 7).
C5_ScenarioS1 ==
    (pc = "done" /\ StreamOfS1)
    => /\ Timing(output) = <<<<0, 5, 0>>, <<1, 2, 5>>>>
       /\ release_timestamp(output[1]) = 5
       /\ release_timestamp(output[2]) = 7

SameInstant(i, j) == i < j /\ trace[i][1] = trace[j][1]

\* C6 as claimed: within one instant the trace shows arrivals, then
\* completions, then submissions.
C6_ArrivalsThenCompletions ==
    LET rank(code) == CASE code = "a" -> 0 [] code = "c" -> 1 [] OTHER -> 2 IN
    \A i, j \in 1 .. Len(trace) :
        SameInstant(i, j) => rank(trace[i][4]) <= rank(trace[j][4])

\* C6 as amended: when an arrival and a release fall on the same instant,
\* the completions of that instant (and the submissions that follow them)
\* come before its arrivals (and the submissions that follow those): a
\* completion record is the first record of its instant, and an instant has
\* one arrival record at most.
C6_CompletionsThenArrivals ==
    \A i, j \in 1 .. Len(trace) :
        SameInstant(i, j) =>
            /\ trace[j][4] # "c"
            /\ ~(trace[i][4] = "a" /\ trace[j][4] = "a")

\* C6's case: a completion and, after it, an arrival at the same instant.
C6_Witness ==
    \E i, j \in 1 .. Len(trace) :
        SameInstant(i, j) /\ trace[i][4] = "c" /\ trace[j][4] = "a"

\* C7: current_time never decreases during a run.
C7_ClockNeverDecreases ==
    [][pc # "init" => current_time' >= current_time]_vars

\* C7's case: a run that has moved the clock and has ended.
C7_Witness ==
    /\ pc = "done"
    /\ Len(trace) >= 2
    /\ trace[1][1] < trace[Len(trace)][1]

\* The queued jobs that arrived at instant t, in queue order.
QueuedArrivedAt(t) ==
    SelectSeq(queue, LAMBDA j : j.arrival_timestamp = t)

\* C8: at the end of an Arrival step at instant t, before anything is
\* dispatched at t, no stream front has arrival_timestamp = t (every such job
\* went to the queue), and the jobs admitted at t stand in ascending stream
\* index, those of one stream in emission order (ascending id).
C8_AllArrivalsOfInstantAdmitted ==
    (pc = "submission" /\ current_state = "Arrival" /\ started = <<>>)
    => /\ \A g \in 1 .. Len(input_jobs) :
            IsJob(input_jobs[g]) =>
                input_jobs[g].arrival_timestamp # current_time
       /\ LET at == QueuedArrivedAt(current_time) IN
          \A k, m \in 1 .. Len(at) : k < m => at[k].id < at[m].id

\* C9: with a time limit nothing is processed at an instant past it: no
\* trace record and no completed job's release is later than the limit; and
\* the limit is the only way the run stops while stream fronts or
\* allocations remain.
C9_NothingPastTimeLimit ==
    /\ time_limit # None =>
        /\ \A k \in 1 .. Len(trace) : trace[k][1] <= time_limit
        /\ \A k \in 1 .. Len(output) :
              output[k].submission_timestamp + output[k].execution_time
                  <= time_limit
    /\ (current_state = "Stop" /\ (FrontsLeft \/ jobs_allocation # <<>>))
        => (time_limit # None /\ current_time > time_limit)

NewlyAllocated ==
    {jobs_allocation'[k].job.id : k \in 1 .. Len(jobs_allocation')}
        \ {jobs_allocation[k].job.id : k \in 1 .. Len(jobs_allocation)}

\* C10: the submission step (no planner) dispatches from the queue head
\* only: a job it starts is the head of the queue and needs no more nodes
\* than are idle, and the step ends only with the queue empty or with a head
\* that needs more nodes than are idle.
C10_DispatchFromHeadOnly ==
    [][pc = "submission" =>
        /\ jobs_allocation' # jobs_allocation =>
              /\ queue # <<>>
              /\ NewlyAllocated = {queue[1].id}
              /\ queue[1].num_nodes <= num_idle_nodes(nodes)
        /\ pc' # "submission" =>
              \/ queue' = <<>>
              \/ queue'[1].num_nodes > num_idle_nodes(nodes')]_vars

\* C10's case: the step started a job and stopped at a head that does not
\* fit, with a job behind the head that would fit the idle nodes.
C10_Witness ==
    /\ pc = "set_next_timestamp"
    /\ started # <<>>
    /\ Len(queue) >= 2
    /\ queue[1].num_nodes > num_idle_nodes(nodes)
    /\ queue[2].num_nodes <= num_idle_nodes(nodes)

\* The (arrival, num_nodes, execution, priority) of the jobs of a sequence.
Shape(jobs) ==
    [k \in 1 .. Len(jobs) |->
        <<jobs[k].arrival_timestamp, jobs[k].num_nodes,
          jobs[k].execution_time, jobs[k].priority>>]

JobsOfS3 == <<<<0, 2, 10, 0>>, <<0, 1, 1, 0>>, <<0, 1, 1, 100>>>>

\* The stream of scenario S3, as far as the run has asked it: it has yielded
\* J1, J2 and J3 and has ended, or it has yielded the first of them and the
\* last job it yielded is still its front.
StreamOfS3 ==
    LET yielded == Shape(job_generators[1]) IN
    \/ yielded = JobsOfS3 /\ ~IsJob(input_jobs[1])
    \/ /\ Len(yielded) \in 1 .. 3
       /\ yielded = SubSeq(JobsOfS3, 1, Len(yielded))
       /\ IsJob(input_jobs[1])

\* The submission timestamp of the job with this id in the output; None
\* when the output does not hold it.
SubmittedAt(id) ==
    LET at == {k \in 1 .. Len(output) : output[k].id = id} IN
    IF at = {} THEN None ELSE output[CHOOSE k \in at : TRUE].submission_timestamp

\* C11: scenario S3: two nodes, the Priority discipline and a stream that
\* yields J1, J2 and J3, all arriving at 0: the run ends with J3 (id 13) and
\* J2 (id 12) submitted at 0 and completed before J1 (id 11), which is
\* submitted at 1 and released at 11.
C11_ScenarioS3 ==
    (pc = "done" /\ StreamOfS3)
    => /\ discipline = "priority"
       /\ Len(output) = 3
       /\ SubmittedAt(13) = 0
       /\ SubmittedAt(12) = 0
       /\ SubmittedAt(11) = 1
       /\ output[3].id = 11
       /\ output[3].submission_timestamp + output[3].execution_time = 11

QueueIds(q) == {q[k].id : k \in 1 .. Len(q)}

\* C12: add admits the job into the queue if and only if (no '_total' limit
\* is set or length < _total) and (no per-source key resolves or
\* num_jobs(source) < limits[key]), the key being the source's own entry,
\* else '_per_source', else none; a job not admitted goes to the buffer of
\* its source when the buffer is on and is counted as dropped otherwise.
C12_AdmissionRule ==
    [][call'.op = "add" =>
        LET job == call'.job
            s == job.source
            total_ok == limits["_total"] = None
                            \/ Len(queue) < limits["_total"]
            key == IF limits[s] # None THEN s
                   ELSE IF limits["_per_source"] # None THEN "_per_source"
                   ELSE "none"
            source_ok == key = "none"
                            \/ q_num_jobs_per_source[s] < limits[key]
            admitted == job.id \in QueueIds(queue')
        IN  /\ admitted <=> (total_ok /\ source_ok)
            /\ admitted => buffer' = buffer /\ num_dropped' = num_dropped
            /\ ~admitted =>
                  /\ queue' = queue
                  /\ IF with_buffer
                     THEN /\ buffer' = [buffer EXCEPT ![s] = Append(@, job)]
                          /\ num_dropped' = num_dropped
                     ELSE /\ buffer' = buffer
                          /\ num_dropped' =
                                [num_dropped EXCEPT ![s] = @ + 1,
                                                    !["_total"] = @ + 1]]_vars

\* C12's cases: an add turned away by the source's own limit while the
\* total is free, and an add that was admitted under limits.
C12_Witness ==
    /\ call.op = "add"
    /\ call.status = 1
    /\ limits[call.job.source] # None
    /\ with_buffer
    /\ buffer[call.job.source] # <<>>
    /\ Len(queue) >= 2

\* C13 as claimed: add returns Rejected (1) exactly when the job found no
\* free spot and the buffer is not in use, Admitted (0) in every other case,
\* the buffered one included.
C13_RejectedIffDropped ==
    [][call'.op = "add" =>
        (call'.status = 1
            <=> (call'.job.id \notin QueueIds(queue') /\ ~with_buffer))]_vars

\* C13 as amended: add returns Rejected (1) exactly when the job found no
\* free spot, whether it was dropped or placed in the overflow buffer, and
\* Admitted (0) exactly when the job entered the queue.
C13_RejectedIffNotQueued ==
    [][call'.op = "add" =>
        /\ call'.status \in {0, 1}
        /\ call'.status = 1 <=> call'.job.id \notin QueueIds(queue')]_vars

\* C13's case: an add whose job went to the overflow buffer.
C13_Witness ==
    /\ call.op = "add"
    /\ with_buffer
    /\ \E k \in 1 .. Len(buffer[call.job.source]) :
            buffer[call.job.source][k].id = call.job.id

\* C14: after get_next or pull has removed a job of source s, if the buffer
\* of s is non-empty exactly one buffered job, the oldest of s, leaves the
\* buffer and enters the queue, and no buffer of another source changes; if
\* the buffer of s is empty no buffer changes.
C14_OneDrainPerRemoval ==
    [][(call'.op \in {"get_next", "pull"} /\ ~call'.raised) =>
        LET s == call'.job.source IN
        /\ call'.job.id \in QueueIds(queue)
        /\ call'.job.id \notin QueueIds(queue')
        /\ IF buffer[s] # <<>>
           THEN /\ buffer' = [buffer EXCEPT ![s] = Tail(@)]
                /\ QueueIds(queue') =
                      (QueueIds(queue) \ {call'.job.id})
                          \cup {Head(buffer[s]).id}
           ELSE /\ buffer' = buffer
                /\ QueueIds(queue') = QueueIds(queue) \ {call'.job.id}]_vars

\* C14's case: a removal that drained one job of a buffer holding more, with
\* a job of the other source buffered as well.
C14_Witness ==
    /\ call.op \in {"get_next", "pull"}
    /\ ~call.raised
    /\ IsJob(queued_buffer_job)
    /\ queued_buffer_job.id \in QueueIds(queue)
    /\ queued_buffer_job.source = call.job.source
    /\ \E s \in Sources : buffer[s] # <<>>

PositionOf(q, id) == CHOOSE k \in 1 .. Len(q) : q[k].id = id

\* C15: under the Priority discipline every add, get_next and pull (buffer
\* drains and aging included) leaves the queue in non-increasing priority,
\* the jobs that stay keep their order, and a job that enters stands behind
\* every job of its own priority: jobs of equal priority stand in the order
\* they were inserted.
C15_PriorityOrderIsStable ==
    [][discipline = "priority" =>
        /\ \A k \in 1 .. (Len(queue') - 1) :
              queue'[k].priority >= queue'[k + 1].priority
        /\ \A i, j \in QueueIds(queue) \cap QueueIds(queue') :
              PositionOf(queue, i) < PositionOf(queue, j)
                  => PositionOf(queue', i) < PositionOf(queue', j)
        /\ \A n \in QueueIds(queue') \ QueueIds(queue) :
              \A k \in 1 .. Len(queue') :
                  (k # PositionOf(queue', n)
                   /\ queue'[k].priority
                        = queue'[PositionOf(queue', n)].priority)
                  => k < PositionOf(queue', n)]_vars

\* C15's case: a job entered a queue that holds an older job of the same
\* priority and a job of another priority, after time has passed.
C15_Witness ==
    /\ discipline = "priority"
    /\ call.op = "add"
    /\ call.status = 0
    /\ latest_queued_timestamp > 0
    /\ Len(queue) = 3
    /\ \E k \in 2 .. 3 :
          /\ queue[k].id = call.job.id
          /\ queue[k - 1].priority = queue[k].priority
    /\ queue[1].priority > queue[3].priority

\* C16: under Priority an add that admits a job at time now raises the
\* priority of every job already queued by exactly now - last admission
\* time, inserts the new job with the priority job_init gives it (not aged)
\* and sets the last admission time to now; an add that does not admit
\* changes no priority and not the last admission time.
C16_AgingOnAdmission ==
    [][(call'.op = "add" /\ discipline = "priority") =>
        IF call'.status = 0
        THEN /\ \A k \in 1 .. Len(queue) :
                  /\ queue[k].id \in QueueIds(queue')
                  /\ queue'[PositionOf(queue', queue[k].id)].priority =
                        queue[k].priority
                            + (current_time' - latest_queued_timestamp)
             /\ call'.job.id \in QueueIds(queue')
             /\ queue'[PositionOf(queue', call'.job.id)].priority =
                    ApplyJobInit(job_init, call'.job).priority
             /\ Len(queue') = Len(queue) + 1
             /\ latest_queued_timestamp' = current_time'
        ELSE /\ queue' = queue
             /\ latest_queued_timestamp' = latest_queued_timestamp]_vars

\* C16's case: an admission some time after the previous one, into a queue
\* that holds a job aged above the priority it was created with.
C16_Witness ==
    /\ call.op = "add"
    /\ call.status = 0
    /\ discipline = "priority"
    /\ job_init = "dummy"
    /\ Len(queue) >= 2
    /\ \E k \in 1 .. Len(queue) : queue[k].priority > queue[k].id % 2

SumOverSources(f) == SumSeq([k \in 1 .. 2 |-> f[IF k = 1 THEN "A" ELSE "B"]])

\* C17: in every state reached by add, get_next, pull and reset the queue
\* length equals the sum of the per-source counters of queued jobs, and
\* without buffer the total drop counter equals the sum of the per-source
\* drop counters.
C17_CountersMatch ==
    /\ Len(queue) = SumOverSources(q_num_jobs_per_source)
    /\ ~with_buffer => num_dropped["_total"] = SumOverSources(num_dropped)

\* C17's case: jobs of both sources were dropped and a job was pulled out of
\* a queue that still holds one.
C17_Witness ==
    /\ ~with_buffer
    /\ num_dropped["A"] > 0
    /\ num_dropped["B"] > 0
    /\ call.op = "pull"
    /\ ~call.raised
    /\ queue # <<>>

\* C18: a queue whose total limit is 0, given as the constructor argument
\* or as the '_total' key of the policy limits, never admits a job: its
\* length stays 0.
C18_ZeroTotalNeverAdmits ==
    queue = <<>>

\* The records of a timetable stand in time order and do not overlap.
SortedDisjoint(timetable) ==
    /\ \A k \in 1 .. Len(timetable) : timetable[k].start < timetable[k].end
    /\ \A k \in 1 .. (Len(timetable) - 1) :
          timetable[k].end <= timetable[k + 1].start

\* C19: insert(start, end) raises and leaves the timetable unchanged
\* whenever start is earlier than the end of a recorded interval that the
\* new interval would follow, the last interval of the timetable included;
\* an insert that succeeds leaves the intervals disjoint and in order.
C19_InsertRejectsOverlap ==
    [][\A start, end \in PlanTimes :
        (start < end /\ NSInsert(start, end)) =>
            LET timetable == schedules[0] IN
            /\ (\E k \in 1 .. Len(timetable) :
                    timetable[k].start <= start /\ start < timetable[k].end)
                => (call'.raised /\ schedules' = schedules)
            /\ ~call'.raised => SortedDisjoint(schedules'[0])]_vars

\* A node is free throughout [t, t + wall_time): no record of its timetable
\* meets that interval.
FreeThroughout(timetable, t, wall_time) ==
    \A k \in 1 .. Len(timetable) :
        timetable[k].end <= t \/ t + wall_time <= timetable[k].start

\* The earliest instant >= now at which num_nodes nodes are each free
\* throughout [t, t + wall_time).
EarliestStart(scheds, now, wall_time, num_nodes) ==
    LET fits(t) == Cardinality({i \in DOMAIN scheds :
                        FreeThroughout(scheds[i], t, wall_time)}) >= num_nodes
        last == CHOOSE t \in Ends(scheds) \cup {now} :
                    \A u \in Ends(scheds) \cup {now} : u <= t
    IN  CHOOSE t \in now .. last :
            fits(t) /\ \A u \in now .. (t - 1) : ~fits(u)

\* C20: for a job with wall_time > 0 and 1 <= num_nodes <= N the planner's
\* start instant is the earliest instant >= now at which num_nodes nodes are
\* each free throughout [t, t + wall_time), also when the idle gap of a node
\* is exactly wall_time long.
C20_PlannerFindsEarliestStart ==
    [][(call'.op = "get_backfill_elements" /\ planned'.wall_time \in WallTimes
          /\ planned'.num_nodes \in 1 .. SchedNodes) =>
        /\ ~planned'.raised
        /\ planned'.start =
              EarliestStart(schedules, sm_current_time', planned'.wall_time,
                            planned'.num_nodes)]_vars

\* The ids of a list of schedule ids are distinct.
Distinct(ids) == Cardinality(Range(ids)) = Len(ids)

\* C21: whenever the planner returns (t*, node set) for a job, the node set
\* holds exactly job.num_nodes distinct node ids, t* >= now, and no chosen
\* node has a reservation that meets [t*, t* + wall_time); so after
\* set_initial_busy_times and any planner reservations every timetable is
\* disjoint and sorted by start.
C21_PlanIsFreeAndDisjoint ==
    [][/\ (call'.op = "get_backfill_elements" /\ planned'.wall_time # None
           /\ ~planned'.raised) =>
            /\ Len(planned'.schedule_ids) = planned'.num_nodes
            /\ Distinct(planned'.schedule_ids)
            /\ planned'.start >= sm_current_time'
            /\ \A i \in Range(planned'.schedule_ids) :
                  FreeThroughout(schedules[i], planned'.start,
                                 planned'.wall_time)
       /\ \A i \in DOMAIN schedules' : SortedDisjoint(schedules'[i])]_vars

\* A planner call has reserved an interval between two records of a node.
C21_Witness ==
    /\ call.op = "get_backfill_elements"
    /\ ~planned.raised
    /\ planned.start > sm_current_time
    /\ \E i \in DOMAIN schedules :
          /\ Len(schedules[i]) = 3
          /\ schedules[i][2].job_id # None
          /\ schedules[i][2].start = planned.start
          /\ schedules[i][3].job_id # None

\* C22: a job that reaches the planner with more nodes asked for than there
\* are, or without its wall time or its number of nodes, makes the call
\* raise, and the call changes no timetable.
C22_BadJobRaises ==
    [][(/\ call'.op = "get_backfill_elements"
        /\ (planned'.wall_time # None \/ planned'.num_nodes # None)
        /\ \/ planned'.wall_time = None
           \/ planned'.num_nodes = None
           \/ planned'.num_nodes > SchedNodes) =>
        (planned'.raised /\ schedules' = schedules)]_vars

\* The planner has refused a job that asks for more nodes than there are,
\* with reservations standing in the timetables.
C22_Witness ==
    /\ call.op = "get_backfill_elements"
    /\ planned.raised
    /\ planned.num_nodes > SchedNodes
    /\ \E i \in DOMAIN schedules : Len(schedules[i]) >= 2

\* The set of the num lowest-index Idle nodes.
LowestIdleSet(ns, num) ==
    {i \in DOMAIN ns :
        /\ ns[i] = "Idle"
        /\ Cardinality({j \in DOMAIN ns : j < i /\ ns[j] = "Idle"}) < num}

\* A sequence without its element at position k.
Without(seq, k) == SubSeq(seq, 1, k - 1) \o SubSeq(seq, k + 1, Len(seq))

\* C28: start(job, now) with enough Idle nodes marks Busy exactly the
\* job.num_nodes lowest-index Idle nodes, sets job.submission_timestamp to
\* now and records one allocation with those ids; with too few Idle nodes
\* it raises and changes no node, no allocation and not the job.
C28_StartTakesLowestIdle ==
    [][\A job \in NMJobs, now \in Times :
        NMStart(job, now) =>
            IF num_idle_nodes(nodes) >= job.num_nodes
            THEN LET taken == LowestIdleSet(nodes, job.num_nodes) IN
                 /\ ~call'.raised
                 /\ Cardinality(taken) = job.num_nodes
                 /\ \A i \in NodeIds :
                       nodes'[i] = IF i \in taken THEN "Busy" ELSE nodes[i]
                 /\ call'.job = [job EXCEPT !.submission_timestamp = now]
                 /\ \E k \in 1 .. Len(jobs_allocation') :
                       /\ jobs_allocation'[k].job = call'.job
                       /\ Range(jobs_allocation'[k].node_ids) = taken
                       /\ Len(jobs_allocation'[k].node_ids) = job.num_nodes
                       /\ Without(jobs_allocation', k) = jobs_allocation
            ELSE /\ call'.raised
                 /\ call'.job = job
                 /\ UNCHANGED nmVars]_vars

\* start has taken node 1, the lowest Idle node, node 0 being Busy, at a
\* time after 0.
C28_Witness ==
    /\ call.op = "start"
    /\ ~call.raised
    /\ call.job.submission_timestamp > 0
    /\ \E k \in 1 .. Len(jobs_allocation) :
          /\ jobs_allocation[k].job = call.job
          /\ jobs_allocation[k].node_ids = <<1>>
    /\ \E k \in 1 .. Len(jobs_allocation) : jobs_allocation[k].node_ids = <<0>>

\* release_timestamp as the sum it stands for.
ReleaseOf(job) == job.submission_timestamp + job.execution_time

\* The elements of a sequence at the positions of keep, in order.
RECURSIVE Kept(_, _, _)
Kept(seq, k, keep) ==
    IF k > Len(seq) THEN <<>>
    ELSE IF k \in keep THEN <<seq[k]>> \o Kept(seq, k + 1, keep)
    ELSE Kept(seq, k + 1, keep)

\* C29: stop(now) removes exactly the allocations whose release_timestamp
\* is now, returns their jobs and sets exactly their node ids to Idle; every
\* other allocation and every node it holds stay as they were.
C29_StopRemovesExactlyTheDue ==
    [][\A now \in Times :
        NMStop(now) =>
            LET all == 1 .. Len(jobs_allocation)
                due == {k \in all : ReleaseOf(jobs_allocation[k].job) = now}
                freed == UNION {Range(jobs_allocation[k].node_ids) : k \in due}
            IN  /\ jobs_allocation' = Kept(jobs_allocation, 1, all \ due)
                /\ stop_processing(now).out =
                      Kept([k \in all |-> jobs_allocation[k].job], 1, due)
                /\ \A i \in NodeIds :
                      nodes'[i] = IF i \in freed THEN "Idle" ELSE nodes[i]]_vars

\* C30: after any start, assign and stop calls at times >= 0 the allocation
\* list is sorted by release_timestamp = submission_timestamp +
\* execution_time, next_release_timestamp is the least release_timestamp of
\* the allocations, and it is absent exactly when there is no allocation.
C30_AllocationsSortedByRelease ==
    /\ \A k \in 1 .. (Len(jobs_allocation) - 1) :
          ReleaseOf(jobs_allocation[k].job)
              <= ReleaseOf(jobs_allocation[k + 1].job)
    /\ next_release_timestamp(jobs_allocation) =
          MinOf({ReleaseOf(jobs_allocation[k].job) :
                    k \in 1 .. Len(jobs_allocation)})
    /\ (next_release_timestamp(jobs_allocation) = None)
          <=> (jobs_allocation = <<>>)

IsPrefix(s, t) == Len(s) <= Len(t) /\ SubSeq(t, 1, Len(s)) = s

\* C25: the trace only grows, its timestamps never decrease, and every
\* Submission record stands right behind an Arrival or Completion record of
\* the same timestamp.
C25_TraceOrdered ==
    [][/\ pc # "init" => IsPrefix(trace, trace')
       /\ \A k \in 1 .. (Len(trace') - 1) : trace'[k][1] <= trace'[k + 1][1]
       /\ \A k \in 1 .. Len(trace') :
             trace'[k][4] = "s" =>
                /\ k > 1
                /\ trace'[k - 1][1] = trace'[k][1]
                /\ trace'[k - 1][4] \in {"a", "c"}]_vars

\* The trace holds a Submission behind an Arrival, and one behind a
\* Completion at a later instant.
C25_Witness ==
    \E k, m \in 2 .. Len(trace) :
        /\ k < m
        /\ trace[k][4] = "s" /\ trace[k - 1][4] = "a"
        /\ trace[m][4] = "s" /\ trace[m - 1][4] = "c"
        /\ trace[k][1] < trace[m][1]

\* The jobs the simulator holds that have been dispatched.
Dispatched ==
    Range([k \in 1 .. Len(jobs_allocation) |-> jobs_allocation[k].job])
        \cup Range(output)

\* C26: every job of output_channel was submitted no earlier than it
\* arrived, was appended at the instant submission_timestamp +
\* execution_time, had its submission_timestamp set once, and the channel
\* stands in non-decreasing order of release_timestamp.
C26_OutputChannelTimes ==
    [][/\ \A k \in 1 .. Len(output') :
             /\ output'[k].submission_timestamp # None
             /\ output'[k].submission_timestamp
                    >= output'[k].arrival_timestamp
       /\ \A k \in (Len(output) + 1) .. Len(output') :
             pc # "init" => current_time = ReleaseOf(output'[k])
       /\ \A k \in 1 .. (Len(output') - 1) :
             ReleaseOf(output'[k]) <= ReleaseOf(output'[k + 1])
       /\ pc # "init" =>
             \A j \in Dispatched : \A i \in Dispatched' :
                i.id = j.id =>
                    i.submission_timestamp = j.submission_timestamp
       /\ \A k \in 1 .. Len(queue') :
             queue'[k].submission_timestamp = None]_vars

\* Two jobs that waited in the queue have completed at different instants.
C26_Witness ==
    \E k, m \in 1 .. Len(output) :
        /\ output[k].submission_timestamp > output[k].arrival_timestamp
        /\ ReleaseOf(output[k]) < ReleaseOf(output[m])
        /\ output[m].submission_timestamp > output[m].arrival_timestamp


JobsOfS4 == <<<<0, 4, 10, 0>>, <<0, 2, 3, 0>>, <<0, 1, 2, 0>>>>

\* The stream of scenario S4, as far as the run has asked it: it has yielded
\* J1, J2 and J3 (each with a wall time equal to its execution time) and has
\* ended, or it has yielded the first of them and the last job it yielded is
\* still its front.
StreamOfS4 ==
    LET yielded == Shape(job_generators[1]) IN
    \/ yielded = JobsOfS4 /\ ~IsJob(input_jobs[1])
    \/ /\ Len(yielded) \in 1 .. 3
       /\ yielded = SubSeq(JobsOfS4, 1, Len(yielded))
       /\ IsJob(input_jobs[1])

\* C23: scenario S4: four nodes, the planner and a stream that yields J1
\* (4 nodes, wall 10, exec 10), J2 (2 nodes, wall 3, exec 3) and J3 (1 node,
\* wall 2, exec 2), all arriving at 0: the run ends with J1 (id 11)
\* dispatched at 0, J2 (id 12) dispatched at 10 and J3 (id 13) dispatched
\* no earlier than 10.
C23_ScenarioS4 ==
    (pc = "done" /\ StreamOfS4)
    => /\ SubmittedAt(11) = 0
       /\ SubmittedAt(12) = 10
       /\ SubmittedAt(13) # None
       /\ SubmittedAt(13) >= 10


\* The stream of scenario S5 from the instant a on: it has yielded J1
\* (2 nodes, wall 10, exec 4) and J2 (1 node, wall 2, exec 2), both arriving
\* at a, and has ended.
StreamOfS5(a) ==
    /\ ~IsJob(input_jobs[1])
    /\ [k \in 1 .. Len(job_generators[1]) |->
          <<job_generators[1][k].arrival_timestamp,
            job_generators[1][k].num_nodes,
            job_generators[1][k].wall_time,
            job_generators[1][k].execution_time>>]
          = <<<<a, 2, 10, 4>>, <<a, 1, 2, 2>>>>

\* C24: scenario S5, early-completion re-plan: when a job completes before
\* its scheduled release while jobs are queued, the schedule is rebuilt in
\* the submission step of that same instant (no request for a rebuild is
\* left when the step is over), so that with two nodes, J1 (id 11) and J2
\* (id 12) of scenario S5, J2 is dispatched at the instant J1 completes,
\* four time units after J1 was dispatched.
C24_EarlyCompletionReplans ==
    /\ pc = "set_next_timestamp" => ~schedule_recreation
    /\ \A a \in Times :
          (pc = "done" /\ StreamOfS5(a))
          => /\ SubmittedAt(11) # None
             /\ SubmittedAt(12) = SubmittedAt(11) + 4


\* C27: run resets all simulator state: a second run of the same QSS whose
\* streams yield the jobs the streams of the first run yielded ends with the
\* trace and the output the first run ended with.
C27_SecondRunRepeatsFirst ==
    (pc = "done" /\ first_run.runs = 1
        /\ job_generators = first_run.streams)
    => /\ trace = first_run.trace
       /\ output = first_run.output


RECURSIVE SumOfFirst(_, _)
SumOfFirst(rows, k) == IF k = 0 THEN 0 ELSE SumOfFirst(rows, k - 1) + rows[k].first

\* C31: for a replay file whose rows are all valid (none has an execution
\* time of 0), the k-th job stream_generator_by_file yields in its pass over
\* the file arrives at the sum of the leading fields of rows 1..k and has
\* the number of nodes and the execution time of row k.
C31_ArrivalIsCumulativeDelta ==
    (\A k \in 1 .. Len(file_stream.rows) :
        file_stream.rows[k].execution_time # 0)
    => \A k \in 1 .. Len(file_stream.yielded) :
          k <= Len(file_stream.rows) =>
            /\ file_stream.yielded[k].arrival_timestamp
                  = SumOfFirst(file_stream.rows, k)
            /\ file_stream.yielded[k].num_nodes = file_stream.rows[k].num_nodes
            /\ file_stream.yielded[k].execution_time
                  = file_stream.rows[k].execution_time


\* The node is reserved at the instant t.
ReservedAt(timetable, t) ==
    \E k \in 1 .. Len(timetable) :
        timetable[k].start <= t /\ t < timetable[k].end

\* The first reserved instant after g0; None when the node stays idle.
GapEnd(timetable, g0) ==
    LET later == {t \in PlanTimes : t > g0 /\ ReservedAt(timetable, t)} IN
    IF later = {} THEN None
    ELSE CHOOSE t \in later : \A u \in later : t <= u

\* The start points of the idle gaps that begin at t or later, in time
\* order: (g0, +1) and (g1 - wall_time, -1) for a gap [g0, g1) that can hold
\* wall_time, (g0, +1) for the open gap.
RECURSIVE StartPointsFrom(_, _, _, _)
StartPointsFrom(timetable, wall_time, now, t) ==
    IF t > LastPlanTime THEN <<>>
    ELSE LET begins == /\ ~ReservedAt(timetable, t)
                       /\ (t = now \/ ReservedAt(timetable, t - 1))
             g1 == GapEnd(timetable, t)
             here == IF ~begins THEN <<>>
                     ELSE IF g1 = None THEN <<<<t, 1>>>>
                     ELSE IF g1 - t >= wall_time
                     THEN <<<<t, 1>>, <<g1 - wall_time, -1>>>>
                     ELSE <<>>
         IN  here \o StartPointsFrom(timetable, wall_time, now, t + 1)

\* C32: for a node timetable, get_start_timestamps(wall_time, now) gives,
\* for each idle gap from now on in time order, (g0, +1) and, when the gap
\* is bounded by g1, (g1 - wall_time, -1), for exactly the gaps with
\* g1 - g0 >= wall_time and the final open gap; the timestamps do not
\* decrease, and the sequence ends with a +1.
C32_StartPointsOfIdleGaps ==
    \A now \in PlanTimes, wall_time \in WallTimes :
        LET points == get_start_timestamps(schedules[0], wall_time, now) IN
        /\ points = StartPointsFrom(schedules[0], wall_time, now, now)
        /\ \A k \in 1 .. (Len(points) - 1) : points[k][1] <= points[k + 1][1]
        /\ points # <<>>
        /\ points[Len(points)][2] = 1


\* C33: set_initial_busy_times(release_map, now) discards every previous
\* reservation of every node: after the call each node the map names has
\* exactly one interval, [now, release_map[id]), and every other node has an
\* empty timetable.
C33_InitialBusyTimesReplaceAll ==
    [][call'.op = "set_initial_busy_times" =>
         \A release_map \in ReleaseMaps(sm_current_time') :
            SMSetInitialBusyTimes(release_map, sm_current_time') =>
                \A id \in DOMAIN schedules' :
                    IF id \in DOMAIN release_map
                    THEN /\ Len(schedules'[id]) = 1
                         /\ schedules'[id][1].start = sm_current_time'
                         /\ schedules'[id][1].end = release_map[id]
                    ELSE schedules'[id] = <<>>]_vars

\* After a call whose map names one node and not another, the node it does
\* not name having nothing left although the planner has placed jobs before.
C33_Witness ==
    /\ call.op = "set_initial_busy_times"
    /\ \E id \in DOMAIN schedules : schedules[id] # <<>>
    /\ \E id \in DOMAIN schedules : schedules[id] = <<>>
    /\ sm_current_time > 0


\* The jobs the run has taken from its streams and handed to the queue: the
\* jobs the streams have yielded but for the fronts that still wait.
NumConsumed ==
    NumYielded(job_generators)
        - Cardinality({g \in DOMAIN input_jobs : IsJob(input_jobs[g])})

\* The jobs of the queue, of the buffer, of the allocations and of the
\* output, one after the other.
JobsInPlace ==
    queue \o buffer["A"] \o buffer["B"]
        \o [k \in 1 .. Len(jobs_allocation) |-> jobs_allocation[k].job]
        \o output

\* C34: job conservation: at every point of a run the number of jobs taken
\* from the streams is queue length + buffer length + number of allocations
\* + length of output_channel + num_dropped, and no job is in two of these
\* places.
C34_JobConservation ==
    /\ NumConsumed = Len(JobsInPlace) + num_dropped["_total"]
    /\ \A i, j \in 1 .. Len(JobsInPlace) :
          i # j => JobsInPlace[i].id # JobsInPlace[j].id

\* A run that has dropped a job, completed another and holds a third, or has
\* a job in the buffer while others are queued, in service or completed.
C34_Witness ==
    \/ num_dropped["_total"] > 0 /\ output # <<>> /\ jobs_allocation # <<>>
    \/ /\ buffer["A"] \o buffer["B"] # <<>>
       /\ queue # <<>>
       /\ jobs_allocation # <<>>


\* Every job the streams have yielded arrives after 0.
ArrivalsArePositive ==
    \A g \in DOMAIN job_generators :
        \A k \in 1 .. Len(job_generators[g]) :
            job_generators[g][k].arrival_timestamp > 0

\* C35: with the overflow buffer on, no planner, no time limit, arrival
\* timestamps above 0 and no job wider than the machine, whatever the
\* limits: the run ends with the queue and the overflow buffer empty and
\* every job the streams yielded in output_channel.
C35_RunDrainsTheBuffer ==
    (pc = "done" /\ with_buffer /\ ArrivalsArePositive)
    => /\ queue = <<>>
       /\ buffer["A"] = <<>>
       /\ buffer["B"] = <<>>
       /\ Len(output) = NumYielded(job_generators)


\* The jobs of source s that have entered the queue: those queued, in
\* service and completed.
Admitted(s) ==
    LET all == queue
                 \o [k \in 1 .. Len(jobs_allocation) |-> jobs_allocation[k].job]
                 \o output
    IN  {all[k] : k \in {m \in 1 .. Len(all) : all[m].source = s}}

\* C36: with the buffer on, the jobs of a source enter the queue in their
\* arrival order: no job of source s has entered the queue while a job of s
\* that its stream yielded earlier (its id is smaller) and that arrived no
\* later waits in the overflow buffer, whatever the limits and the sources.
C36_SourceOrderThroughBuffer ==
    with_buffer =>
        \A s \in Sources :
            \A k \in 1 .. Len(buffer[s]) :
                \A job \in Admitted(s) :
                    ~(/\ buffer[s][k].id < job.id
                      /\ buffer[s][k].arrival_timestamp
                            <= job.arrival_timestamp)


\* The jobs of source s in the queue.
NumQueuedOf(s) == Cardinality({k \in 1 .. Len(queue) : queue[k].source = s})

\* C37: in every reachable queue state the length is within the '_total'
\* limit when one is set, and for every source the number of its queued
\* jobs is within the per-source limit that resolves for it (its own entry,
\* otherwise '_per_source'), also after buffered jobs were drained back into
\* the queue.
C37_QueueWithinLimits ==
    /\ limits["_total"] # None => Len(queue) <= limits["_total"]
    /\ \A s \in Sources :
          /\ limits[s] # None => NumQueuedOf(s) <= limits[s]
          /\ (limits[s] = None /\ limits["_per_source"] # None)
                => NumQueuedOf(s) <= limits["_per_source"]

\* A queue that is as long as a limit allows, just after a job of the
\* buffer was drained into it.
C37_Witness ==
    /\ call.op \in {"get_next", "pull"}
    /\ IsJob(queued_buffer_job)
    /\ queued_buffer_job.id \in QueueIds(queue)
    /\ \/ limits["_total"] = Len(queue)
       \/ \E s \in Sources :
            limits[s] = None /\ limits["_per_source"] = NumQueuedOf(s)


\* C38: queue limits are private to each QueueManager: building a manager
\* from the policy changes the limits of no manager built before, and a
\* manager built with limit=None has no total limit (QUEUE_POLICY sets
\* none).
C38_LimitsArePrivate ==
    [][call'.op = "init" =>
        /\ \A m \in 1 .. Len(queue_policy.managers) :
              queue_policy'.managers[m].limits
                  = queue_policy.managers[m].limits
        /\ call'.status = None =>
              queue_policy'.managers[Len(queue_policy'.managers)]
                  .limits["_total"] = None]_vars


\* C39: the planner's earliest-start search always ends with a result: on
\* the timetables of the nodes, for every wall_time > 0 and every num_nodes
\* from 1 to the number of nodes, the event merge neither runs out of events
\* before num_nodes nodes are eligible together nor removes a node that is
\* not in the eligible set.
C39_MergeEndsWithResult ==
    \A wall_time \in WallTimes, num_nodes \in 1 .. Cardinality(DOMAIN schedules) :
        LET found == get_schedule_parameters(schedules, sm_current_time,
                                             wall_time, num_nodes)
        IN  /\ ~found.raised
            /\ found.start # None
            /\ Len(found.schedule_ids) = num_nodes

\* A plan for all the nodes made after the merge has removed a node: a node
\* has an idle gap that can hold the job and ends before the start found.
C39_Witness ==
    /\ call.op = "get_backfill_elements"
    /\ planned.num_nodes = Cardinality(DOMAIN schedules)
    /\ ~planned.raised
    /\ \E i \in DOMAIN schedules :
          LET events == get_start_timestamps(schedules[i], planned.wall_time,
                                             sm_current_time)
          IN  /\ Len(events) >= 3
              /\ events[2][2] = -1
              /\ events[2][1] < planned.start

====
